---- MODULE Spec2Model ----
(***************************************************************************)
(* Model of the proof engine of propositionalcalculus: formulas, pattern   *)
(* matching, inference rules, Proof (state, check, step_dependencies,      *)
(* step_subproof), proof_mixer and the deduction-theorem transformation    *)
(* assumption_to_implication of the Hilbert system PCProof; and of the     *)
(* rewriting engine: traversals, replacement at a position, the CNF and    *)
(* is_tauto, rewrite rules with apply_all, apply_list and check_cycles.    *)
(*                                                                         *)
(* Five specifications share the variables: Spec (a caller builds a proof  *)
(* and calls one operation on it), RuleSpec (a caller calls one operation  *)
(* on formulas or inference rules), RewriteSpec (a caller runs the         *)
(* rewriting loops, one statement at a time), PolishSpec (a caller calls   *)
(* parse_polish several times in a row) and HeapSpec (a caller keeps the   *)
(* lists it built two proofs from and calls one operation on the proofs).  *)
(*                                                                         *)
(* Python values are encoded as follows.                                   *)
(*   - a Formula is a tuple whose head is its class name;                  *)
(*   - None is the tuple <<"None">>;                                       *)
(*   - a Binding (dict[Var, Formula]) is a function from variable names;   *)
(*   - a call that can raise returns [exc |-> name, val |-> value], with   *)
(*     exc = "" when it returns normally;                                  *)
(*   - the text of a formula is the list of its characters, with ~ & | >   *)
(*     for the connectives;                                                *)
(*   - list indices are Python's (0-based, negative counts from the end).  *)
(***************************************************************************)
EXTENDS Integers, Sequences, FiniteSets, TLC

-----------------------------------------------------------------------------
(* formula.py *)

Var(name) == <<"Var", name>>
ConstTRUE == <<"Const", "T">>
ConstFALSE == <<"Const", "F">>
Neg(f) == <<"Neg", f>>
And(left, right) == <<"And", left, right>>
Or(left, right) == <<"Or", left, right>>
Imp(left, right) == <<"Imp", left, right>>
None == <<"None">>

\* The outcome of a call: a value returned, or an exception raised.
Ok(v) == [exc |-> "", val |-> v]
Raised(e) == [exc |-> e, val |-> <<>>]
Raise(e) == <<"raise", e>>
IsRaise(x) == x[1] = "raise"

IsNone(x) == x[1] = "None"
IsVar(f) == f[1] = "Var"
IsConst(f) == f[1] = "Const"
UnaryOperator(f) == f[1] = "Neg"
BinaryOperator(f) == f[1] \in {"And", "Or", "Imp"}
IsImp(f) == f[1] = "Imp"

\* The operator symbols, in ASCII: ~ for the negation sign, & | > for the
\* conjunction, disjunction and implication signs.
symbol(f) ==
    CASE f[1] = "Neg" -> "~"
      [] f[1] = "And" -> "&"
      [] f[1] = "Or" -> "|"
      [] f[1] = "Imp" -> ">"

\* str(x), as the list of its characters: the rendering on which equality of
\* formulas rests. An operator renders by its __repr__, whose f-string
\* renders the operands by str; a constant is a member of the Enum Const,
\* which renders by Enum.__str__ as Const.TRUE or Const.FALSE.
RECURSIVE str(_)
str(f) ==
    CASE IsNone(f) -> <<"N", "o", "n", "e">>
      [] IsVar(f) -> <<f[2]>>
      [] IsConst(f) ->
            IF f[2] = "T"
            THEN <<"C", "o", "n", "s", "t", ".", "T", "R", "U", "E">>
            ELSE <<"C", "o", "n", "s", "t", ".", "F", "A", "L", "S", "E">>
      [] UnaryOperator(f) -> <<symbol(f)>> \o str(f[2])
      [] BinaryOperator(f) ->
            <<"(">> \o str(f[2]) \o <<symbol(f)>> \o str(f[3]) \o <<")">>

\* repr(x), on which hashing rests: Const.__repr__ gives T or F.
repr(f) == IF IsConst(f) THEN <<f[2]>> ELSE str(f)

\* Formula.__eq__: two formulas are equal iff their renderings are equal.
Formula_eq(self, other) == str(self) = str(other)

\* x in list, list.index(x) and len(set(list)) for lists of formulas.
InList(f, list) == \E k \in 1..Len(list) : Formula_eq(list[k], f)
ListIndex(f, list) ==
    (CHOOSE k \in 1..Len(list) :
        /\ Formula_eq(list[k], f)
        /\ \A j \in 1..(k - 1) : ~Formula_eq(list[j], f)) - 1
NoRepeats(list) ==
    \A j, k \in 1..Len(list) : Formula_eq(list[j], list[k]) => j = k

\* Formula.vars, as the set of the variables' names.
RECURSIVE vars(_)
vars(f) ==
    CASE IsVar(f) -> {f[2]}
      [] IsConst(f) -> {}
      [] UnaryOperator(f) -> vars(f[2])
      [] BinaryOperator(f) -> vars(f[2]) \cup vars(f[3])

EmptyBinding == [v \in {} |-> None]

RECURSIVE subs(_, _)
subs(f, binding) ==
    CASE IsVar(f) -> IF f[2] \in DOMAIN binding THEN binding[f[2]] ELSE f
      [] IsConst(f) -> f
      [] UnaryOperator(f) -> <<f[1], subs(f[2], binding)>>
      [] BinaryOperator(f) -> <<f[1], subs(f[2], binding), subs(f[3], binding)>>

\* A merge that lets the earlier binding win where the two disagree.
merge_bindings_first_wins(a, b) == [none |-> FALSE, binding |-> a @@ b]

\* A merge that lets the later binding win where the two disagree.
merge_bindings_overwrite(a, b) == [none |-> FALSE, binding |-> b @@ a]

\* merge_bindings: [none |-> TRUE] stands for the None it returns on a conflict.
merge_bindings(a, b) ==
    IF \E key \in DOMAIN a : key \in DOMAIN b /\ ~Formula_eq(a[key], b[key])
    THEN [none |-> TRUE, binding |-> EmptyBinding]
    ELSE [none |-> FALSE, binding |-> b @@ a]

\* Formula.__len__: the number of nodes of the formula.
RECURSIVE len(_)
len(f) ==
    CASE IsVar(f) \/ IsConst(f) -> 1
      [] UnaryOperator(f) -> 1 + len(f[2])
      [] BinaryOperator(f) -> 1 + len(f[2]) + len(f[3])

\* OrderType.
PREORDER == "PREORDER"
BREADTH_FIRST == "BREADTH_FIRST"

RECURSIVE traverse_preorder(_)
traverse_preorder(f) ==
    CASE IsVar(f) \/ IsConst(f) -> <<f>>
      [] UnaryOperator(f) -> <<f>> \o traverse_preorder(f[2])
      [] BinaryOperator(f) ->
            <<f>> \o traverse_preorder(f[2]) \o traverse_preorder(f[3])

\* A variant that puts the right child in front of the queue first.
queue_insert_right_first(v, queue) ==
    CASE IsVar(v) \/ IsConst(v) -> queue
      [] UnaryOperator(v) -> <<v[2]>> \o queue
      [] BinaryOperator(v) -> <<v[2], v[3]>> \o queue

\* What the match statement of the two breadth-first loops puts in front of
\* the queue: insert(0, A), then insert(0, B).
queue_insert(v, queue) ==
    CASE IsVar(v) \/ IsConst(v) -> queue
      [] UnaryOperator(v) -> <<v[2]>> \o queue
      [] BinaryOperator(v) -> <<v[3], v[2]>> \o queue

\* The loop of traverse_breadth: queue.pop() takes the last entry.
RECURSIVE traverse_breadth_loop(_)
traverse_breadth_loop(queue) ==
    IF Len(queue) = 0 THEN <<>>
    ELSE LET v == queue[Len(queue)]
         IN  <<v>> \o traverse_breadth_loop(
                        queue_insert(v, SubSeq(queue, 1, Len(queue) - 1)))

traverse_breadth(f) == traverse_breadth_loop(<<f>>)

traverse(f, order_type) ==
    IF order_type = PREORDER THEN traverse_preorder(f) ELSE traverse_breadth(f)

\* The loop of from_traversal_breadth_first: traversal.pop() takes the last
\* entry, queue.pop(0) the first.
RECURSIVE from_traversal_loop(_, _)
from_traversal_loop(traversal, queue) ==
    IF Len(traversal) = 0 THEN queue[Len(queue)]
    ELSE LET v == traversal[Len(traversal)]
             rest == SubSeq(traversal, 1, Len(traversal) - 1)
         IN  CASE IsVar(v) \/ IsConst(v) ->
                    from_traversal_loop(rest, Append(queue, v))
               [] UnaryOperator(v) ->
                    from_traversal_loop(rest,
                        Append(Tail(queue), <<v[1], queue[1]>>))
               [] BinaryOperator(v) ->
                    from_traversal_loop(rest,
                        Append(Tail(Tail(queue)), <<v[1], queue[2], queue[1]>>))

from_traversal_breadth_first(traversal) == from_traversal_loop(traversal, <<>>)

RECURSIVE replace_at_pos_preorder(_, _, _, _)
replace_at_pos_preorder(self, pos, f, current_pos) ==
    IF current_pos = pos THEN f
    ELSE CASE IsVar(self) \/ IsConst(self) -> self
           [] UnaryOperator(self) ->
                <<self[1], replace_at_pos_preorder(self[2], pos, f, current_pos + 1)>>
           [] BinaryOperator(self) ->
                LET left == replace_at_pos_preorder(self[2], pos, f, current_pos + 1)
                IN  <<self[1], left,
                      replace_at_pos_preorder(self[3], pos, f,
                                              current_pos + 1 + len(left))>>

\* The loop of replace_at_pos_breadth.
RECURSIVE replace_at_pos_breadth_loop(_, _, _, _, _)
replace_at_pos_breadth_loop(queue, traversal, i, pos, f) ==
    IF Len(queue) = 0 THEN from_traversal_breadth_first(traversal)
    ELSE LET v == queue[Len(queue)]
             rest == SubSeq(queue, 1, Len(queue) - 1)
         IN  IF pos = i
             THEN replace_at_pos_breadth_loop(Append(rest, f), traversal,
                                              i + 1, pos, f)
             ELSE replace_at_pos_breadth_loop(queue_insert(v, rest),
                                              Append(traversal, v), i + 1, pos, f)

replace_at_pos_breadth(self, pos, f) ==
    replace_at_pos_breadth_loop(<<self>>, <<>>, 0, pos, f)

\* replace_at_pos: <<"raise", "AssertionError">> when pos is no position.
replace_at_pos(self, pos, f, order_type) ==
    IF ~(pos < len(self)) THEN Raise("AssertionError")
    ELSE IF order_type = PREORDER THEN replace_at_pos_preorder(self, pos, f, 0)
    ELSE replace_at_pos_breadth(self, pos, f)

RECURSIVE subs_imp(_)
subs_imp(f) ==
    CASE IsVar(f) \/ IsConst(f) -> f
      [] UnaryOperator(f) -> <<f[1], subs_imp(f[2])>>
      [] IsImp(f) -> Or(Neg(subs_imp(f[2])), subs_imp(f[3]))
      [] OTHER -> <<f[1], subs_imp(f[2]), subs_imp(f[3])>>

RECURSIVE push_neg(_)
push_neg(f) ==
    CASE IsVar(f) \/ IsConst(f) -> f
      [] UnaryOperator(f) ->
            (LET g == f[2]
             IN  CASE IsVar(g) \/ IsConst(g) -> Neg(g)
                   [] UnaryOperator(g) -> push_neg(g[2])
                   [] g[1] = "And" -> Or(push_neg(Neg(g[2])), push_neg(Neg(g[3])))
                   [] g[1] = "Or" -> And(push_neg(Neg(g[2])), push_neg(Neg(g[3])))
                   [] g[1] = "Imp" -> And(push_neg(g[2]), push_neg(Neg(g[3]))))
      [] OTHER -> <<f[1], push_neg(f[2]), push_neg(f[3])>>

RECURSIVE distribute_or_step(_)
distribute_or_step(f) ==
    CASE IsVar(f) \/ IsConst(f) -> f
      [] UnaryOperator(f) -> <<f[1], distribute_or_step(f[2])>>
      [] f[1] = "Or" /\ f[2][1] = "And" ->
            And(Or(distribute_or_step(f[2][2]), distribute_or_step(f[3])),
                Or(distribute_or_step(f[2][3]), distribute_or_step(f[3])))
      [] f[1] = "Or" /\ f[2][1] # "And" /\ f[3][1] = "And" ->
            And(Or(distribute_or_step(f[2]), distribute_or_step(f[3][2])),
                Or(distribute_or_step(f[2]), distribute_or_step(f[3][3])))
      [] OTHER -> <<f[1], distribute_or_step(f[2]), distribute_or_step(f[3])>>

\* distribute_or: the step is repeated until it changes nothing.
RECURSIVE distribute_or(_)
distribute_or(f1) ==
    LET f2 == distribute_or_step(f1)
    IN  IF Formula_eq(f2, f1) THEN f1 ELSE distribute_or(f2)

IsTRUE(f) == Formula_eq(f, ConstTRUE)
IsFALSE(f) == Formula_eq(f, ConstFALSE)

\* _simp_const_step: the cases of the match statement, in its order.
RECURSIVE simp_const_step(_)
simp_const_step(f) ==
    IF IsVar(f) \/ IsConst(f) THEN f
    ELSE IF UnaryOperator(f) THEN
        (IF IsTRUE(f[2]) THEN ConstFALSE
         ELSE IF IsFALSE(f[2]) THEN ConstTRUE
         ELSE Neg(simp_const_step(f[2])))
    ELSE IF f[1] = "And" THEN
        (IF IsTRUE(f[2]) THEN simp_const_step(f[3])
         ELSE IF IsTRUE(f[3]) THEN simp_const_step(f[2])
         ELSE IF IsFALSE(f[2]) \/ IsFALSE(f[3]) THEN ConstFALSE
         ELSE And(simp_const_step(f[2]), simp_const_step(f[3])))
    ELSE IF f[1] = "Or" THEN
        (IF IsTRUE(f[3]) \/ IsTRUE(f[2]) THEN ConstTRUE
         ELSE IF IsFALSE(f[3]) THEN simp_const_step(f[2])
         ELSE IF IsFALSE(f[2]) THEN simp_const_step(f[3])
         ELSE Or(simp_const_step(f[2]), simp_const_step(f[3])))
    ELSE
        (IF IsTRUE(f[2]) THEN simp_const_step(f[3])
         ELSE IF IsTRUE(f[3]) THEN ConstTRUE
         ELSE IF IsFALSE(f[2]) THEN ConstTRUE
         ELSE IF IsFALSE(f[3]) THEN Neg(simp_const_step(f[2]))
         ELSE Imp(simp_const_step(f[2]), simp_const_step(f[3])))

RECURSIVE simp_const(_)
simp_const(f1) ==
    LET f2 == simp_const_step(f1)
    IN  IF Formula_eq(f2, f1) THEN f1 ELSE simp_const(f2)

CNF(f) == simp_const(distribute_or(push_neg(subs_imp(f))))

\* Var.var_names, and the assertion of Var.__init__.
var_names ==
    {"A", "B", "C", "D", "E", "G", "H", "I", "J", "K", "L", "M", "N", "O", "P",
     "Q", "R", "S", "V", "W", "X", "Y", "Z"}

\* The while loop of CNF_structured over the characters of f_str. s holds
\* the loop's variables (i counts from 1) and the exception raised, if any;
\* the body runs while i is within f_str and advances i each time, so it
\* runs at most n = Len(f_str) times: the n passes are the first n \div 2
\* followed by the rest. Var(c) raises AssertionError for a character c that
\* is no variable name.
RECURSIVE CNF_structured_loop(_, _, _)
CNF_structured_loop(f_str, s, n) ==
    IF s.exc # "" \/ s.i > Len(f_str) THEN s
    ELSE IF n > 1
    THEN CNF_structured_loop(f_str, CNF_structured_loop(f_str, s, n \div 2),
                             n - n \div 2)
    ELSE IF f_str[s.i] = "~" THEN
        (IF f_str[s.i + 1] = "T"
         THEN [s EXCEPT !.i = @ + 2, !.current_set = @ \cup {ConstFALSE}]
         ELSE IF f_str[s.i + 1] = "F"
         THEN [s EXCEPT !.i = @ + 2, !.current_set = @ \cup {ConstTRUE}]
         ELSE IF f_str[s.i + 1] \notin var_names
         THEN [s EXCEPT !.exc = "AssertionError"]
         ELSE [s EXCEPT !.i = @ + 2,
                        !.current_set = @ \cup {Neg(Var(f_str[s.i + 1]))}])
    ELSE IF f_str[s.i] = "&"
    THEN [s EXCEPT !.i = @ + 1, !.result = Append(@, s.current_set),
                   !.current_set = {}]
    ELSE IF f_str[s.i] \in {"|", "(", ")"} THEN [s EXCEPT !.i = @ + 1]
    ELSE IF f_str[s.i] = "T"
    THEN [s EXCEPT !.i = @ + 1, !.current_set = @ \cup {ConstTRUE}]
    ELSE IF f_str[s.i] = "F"
    THEN [s EXCEPT !.i = @ + 1, !.current_set = @ \cup {ConstFALSE}]
    ELSE IF f_str[s.i] \notin var_names
    THEN [s EXCEPT !.exc = "AssertionError"]
    ELSE [s EXCEPT !.i = @ + 1, !.current_set = @ \cup {Var(f_str[s.i])}]

\* CNF_structured: the loop starts with i at the first character, an empty
\* result and an empty current_set; the last set joins the result.
CNF_structured(f) ==
    LET s == CNF_structured_loop(str(CNF(f)),
                                 [exc |-> "", i |-> 1, result |-> <<>>,
                                  current_set |-> {}],
                                 Len(str(CNF(f))))
    IN  IF s.exc # "" THEN Raised(s.exc) ELSE Ok(Append(s.result, s.current_set))

\* The loop of is_tauto over the clauses, from clause k on. A clause that
\* holds a constant ends the loop with that constant's value.
RECURSIVE is_tauto_loop(_, _)
is_tauto_loop(clauses, k) ==
    IF k > Len(clauses) THEN TRUE
    ELSE LET l == clauses[k]
             affirmative == {f \in l : IsVar(f)}
             negative == {f[2] : f \in {g \in l : UnaryOperator(g)}}
         IN  IF ConstTRUE \in l THEN TRUE
             ELSE IF ConstFALSE \in l THEN FALSE
             ELSE IF affirmative \cap negative = {} THEN FALSE
             ELSE is_tauto_loop(clauses, k + 1)

is_tauto(f) ==
    LET clauses == CNF_structured(f)
    IN  IF clauses.exc # "" THEN Raised(clauses.exc)
        ELSE Ok(is_tauto_loop(clauses.val, 1))

\* str_polish, as the list of its characters: a variable and a constant
\* render by str, an operator by its symbol and its operands, separated by
\* spaces.
RECURSIVE str_polish(_)
str_polish(f) ==
    CASE IsVar(f) \/ IsConst(f) -> str(f)
      [] UnaryOperator(f) -> <<symbol(f), " ">> \o str_polish(f[2])
      [] BinaryOperator(f) ->
            <<symbol(f), " ">> \o str_polish(f[2]) \o <<" ">> \o str_polish(f[3])

\* string.replace(" ", "")
without_spaces(string) == SelectSeq(string, LAMBDA c : c # " ")

\* list.pop() and list.append(x) on a list held as a sequence, last entry on
\* top.
pop_top(list) == list[Len(list)]
popped(list) == SubSeq(list, 1, Len(list) - 1)

parse_polish_binary(head, list) ==
    Append(popped(popped(list)), <<head, pop_top(list), pop_top(popped(list))>>)

\* Formula.parse_polish(string, stack): the string is read from its last
\* character to its first. Returns what the call returns or raises, and the
\* list stack as the call leaves it.
RECURSIVE parse_polish(_, _)
parse_polish(string0, list) ==
    LET string == without_spaces(string0)
        c == string[Len(string)]
        rest == SubSeq(string, 1, Len(string) - 1)
    IN  IF Len(string) = 0
        THEN IF Len(list) = 0
             THEN [result |-> Raised("IndexError"), stack |-> list]
             ELSE [result |-> Ok(pop_top(list)), stack |-> popped(list)]
        ELSE CASE c = "~" ->
                    IF Len(list) >= 1
                    THEN parse_polish(rest, Append(popped(list), Neg(pop_top(list))))
                    ELSE [result |-> Raised("AssertionError"), stack |-> list]
               [] c \in {"&", "|", ">"} ->
                    IF Len(list) >= 2
                    THEN parse_polish(rest,
                            parse_polish_binary(
                                (CASE c = "&" -> "And" [] c = "|" -> "Or"
                                   [] c = ">" -> "Imp"), list))
                    ELSE [result |-> Raised("AssertionError"), stack |-> list]
               [] c = "T" -> parse_polish(rest, Append(list, ConstTRUE))
               [] c = "F" -> parse_polish(rest, Append(list, ConstFALSE))
               [] OTHER ->
                    IF c \in var_names
                    THEN parse_polish(rest, Append(list, Var(c)))
                    ELSE [result |-> Raised("AssertionError"), stack |-> list]

-----------------------------------------------------------------------------
(* table.py *)

\* The variable names in the order of Python's string comparison.
alphabetical ==
    <<"A", "B", "C", "D", "E", "G", "H", "I", "J", "K", "L", "M", "N", "O", "P",
      "Q", "R", "S", "V", "W", "X", "Y", "Z">>

\* sort_vars: the names of the variables, sorted.
sort_vars(names) == SelectSeq(alphabetical, LAMBDA v : v \in names)

\* semantics of Neg, And, Or and Imp.
semantics(f, values) ==
    CASE f[1] = "Neg" -> ~values[1]
      [] f[1] = "And" -> values[1] /\ values[2]
      [] f[1] = "Or" -> values[1] \/ values[2]
      [] f[1] = "Imp" -> (~values[1]) \/ values[2]

\* TableLine._table_line_rec: the truth values of the nodes of f in infix
\* order and the position of the value of f among them (counts from 0).
RECURSIVE table_line_rec(_, _)
table_line_rec(f, ass) ==
    CASE IsVar(f) -> [line |-> <<ass[f[2]]>>, pos |-> 0]
      [] IsConst(f) -> [line |-> <<f[2] = "T">>, pos |-> 0]
      [] UnaryOperator(f) ->
            LET sub == table_line_rec(f[2], ass)
            IN  [line |-> <<semantics(f, <<sub.line[sub.pos + 1]>>)>> \o sub.line,
                 pos |-> 0]
      [] BinaryOperator(f) ->
            LET l1 == table_line_rec(f[2], ass)
                l2 == table_line_rec(f[3], ass)
            IN  [line |-> l1.line
                          \o <<semantics(f, <<l1.line[l1.pos + 1],
                                              l2.line[l2.pos + 1]>>)>>
                          \o l2.line,
                 pos |-> Len(l1.line)]

\* The assignment of line i of Table.lines: variable k of the sorted
\* variables gets digit k of i written in binary on n_vars digits.
table_ass(sorted, i) ==
    [v \in {sorted[k] : k \in 1..Len(sorted)} |->
        LET k == CHOOSE j \in 1..Len(sorted) : sorted[j] = v
        IN  (i \div (2 ^ (Len(sorted) - k))) % 2 = 1]

\* Table.truth_list: the value of f on each line.
truth_list(f) ==
    LET sorted == sort_vars(vars(f))
    IN  [i \in 1..(2 ^ Len(sorted)) |->
            LET r == table_line_rec(f, table_ass(sorted, i - 1))
            IN  r.line[r.pos + 1]]

\* table.is_tauto
table_is_tauto(f) == \A i \in 1..Len(truth_list(f)) : truth_list(f)[i]

-----------------------------------------------------------------------------
(* rule.py *)

\* _match_inner: the dict bindings is filled in place, so the binding left by
\* the left child is the one the right child starts from.
RECURSIVE match_inner(_, _, _)
match_inner(current_pattern, value, bindings) ==
    CASE IsConst(current_pattern) ->
            [ok |-> IsConst(value) /\ Formula_eq(current_pattern, value),
             bindings |-> bindings]
      [] IsVar(current_pattern) ->
            IF current_pattern[2] \notin DOMAIN bindings
            THEN [ok |-> TRUE,
                  bindings |-> (current_pattern[2] :> value) @@ bindings]
            ELSE [ok |-> Formula_eq(bindings[current_pattern[2]], value),
                  bindings |-> bindings]
      [] UnaryOperator(current_pattern) ->
            IF UnaryOperator(value) /\ current_pattern[1] = value[1]
            THEN match_inner(current_pattern[2], value[2], bindings)
            ELSE [ok |-> FALSE, bindings |-> bindings]
      [] BinaryOperator(current_pattern) ->
            IF BinaryOperator(value) /\ current_pattern[1] = value[1]
            THEN LET l == match_inner(current_pattern[2], value[2], bindings)
                 IN  IF l.ok
                     THEN match_inner(current_pattern[3], value[3], l.bindings)
                     ELSE l
            ELSE [ok |-> FALSE, bindings |-> bindings]

\* next(pattern_match(pattern, subject)): the entry of the first position
\* visited, which is the whole subject in both traversal orders.
pattern_match_first(pattern, subject) ==
    LET m == match_inner(pattern, subject, EmptyBinding)
    IN  IF m.ok THEN [none |-> FALSE, binding |-> m.bindings]
                ELSE [none |-> TRUE, binding |-> EmptyBinding]

\* pattern_match: the list of the entries it yields, one per subformula of
\* the traversal, each matched from an empty dict. An entry is
\* [none |-> TRUE] for None and [none |-> FALSE, binding |-> b] for a binding.
pattern_match(pattern, subject, traverse_order) ==
    LET traversal == traverse(subject, traverse_order)
    IN  [k \in 1..Len(traversal) |-> pattern_match_first(pattern, traversal[k])]

Rule(head, body) == [head |-> head, body |-> body]

\* The assertion of Rule.__init__.
Rule_init_ok(head, body) == vars(body) \subseteq vars(head)

Rule_match(rule, value, traverse_order) ==
    pattern_match(rule.head, value, traverse_order)

\* Rule.apply: next(islice(...)) raises StopIteration past the last position.
Rule_apply(rule, value, pos, traverse_order) ==
    LET m == Rule_match(rule, value, traverse_order)
    IN  IF pos + 1 > Len(m) THEN Raise("StopIteration")
        ELSE IF m[pos + 1].none THEN None
        ELSE replace_at_pos(value, pos, subs(rule.body, m[pos + 1].binding),
                            traverse_order)

\* Rule.apply_first: the position is found in traverse_order, the rule is
\* applied with the default order of Rule.apply.
apply_first(rule, value, traverse_order) ==
    LET m == Rule_match(rule, value, traverse_order)
        found == {k \in 1..Len(m) : ~m[k].none}
    IN  IF found = {} THEN None
        ELSE Rule_apply(rule, value,
                        (CHOOSE k \in found : \A j \in found : k <= j) - 1,
                        BREADTH_FIRST)

apply_all_precondition_root_only(rule) ==
    pattern_match_first(rule.head, rule.body).none

\* The assertion of Rule.apply_all: head matches nowhere in body.
apply_all_precondition(rule) ==
    LET m == pattern_match(rule.head, rule.body, BREADTH_FIRST)
    IN  \A k \in 1..Len(m) : m[k].none

\* Rule.applications, from position k on (k counts from 1): the positions are
\* found in traverse_order, the rule is applied with the default order of
\* Rule.apply.
RECURSIVE applications_loop(_, _, _, _)
applications_loop(rule, value, traverse_order, k) ==
    LET m == Rule_match(rule, value, traverse_order)
    IN  IF k > Len(m) THEN <<>>
        ELSE IF m[k].none
        THEN applications_loop(rule, value, traverse_order, k + 1)
        ELSE <<Rule_apply(rule, value, k - 1, BREADTH_FIRST)>>
             \o applications_loop(rule, value, traverse_order, k + 1)

applications(rule, value, traverse_order) ==
    applications_loop(rule, value, traverse_order, 1)

\* The edges of the DiGraph that Rule.check_cycles builds.
check_cycles_edges(rules) ==
    {<<rules[i].head, rules[i].body>> : i \in 1..Len(rules)}
    \cup {<<rules[p[1]].body, rules[p[2]].head>> :
            p \in {q \in (1..Len(rules)) \X (1..Len(rules)) :
                     \E b \in 1..Len(rules) :
                        InList(rules[q[2]].head,
                               applications(rules[b], rules[q[1]].body,
                                            BREADTH_FIRST))}}

\* The pairs of nodes joined by a path of one edge or more.
RECURSIVE paths(_, _)
paths(edges, found) ==
    LET next == found \cup {<<q[1][1], q[2][2]>> :
                              q \in {r \in found \X edges : r[1][2] = r[2][1]}}
    IN  IF next = found THEN found ELSE paths(edges, next)

\* Rule.check_cycles: find_cycle finds a cycle exactly when some node is
\* joined to itself by a path.
check_cycles(rules) ==
    \E p \in paths(check_cycles_edges(rules), check_cycles_edges(rules)) :
        p[1] = p[2]

-----------------------------------------------------------------------------
(* inference.py: InferenceRule *)

InferenceRule(name, assumptions, conclusion) ==
    [name |-> name, assumptions |-> assumptions, conclusion |-> conclusion]

arity(rule) == Len(rule.assumptions)
assumptions_vars(rule) ==
    UNION {vars(rule.assumptions[k]) : k \in 1..Len(rule.assumptions)}
conclusion_vars(rule) == vars(rule.conclusion)

\* The loop of InferenceRule.apply over zip(self._assumptions, assumptions),
\* from the k-th pair on.
RECURSIVE apply_loop(_, _, _, _)
apply_loop(rule, assumptions, k, global_binding) ==
    IF k > Len(rule.assumptions)
    THEN subs(rule.conclusion, global_binding)
    ELSE LET binding == pattern_match_first(rule.assumptions[k], assumptions[k])
         IN  IF binding.none
             THEN None
             ELSE LET merged == merge_bindings(global_binding, binding.binding)
                  IN  IF merged.none
                      THEN None
                      ELSE apply_loop(rule, assumptions, k + 1, merged.binding)

InferenceRule_apply(rule, assumptions, conclusion_binding) ==
    IF Len(rule.assumptions) # Len(assumptions)
    THEN None
    ELSE IF conclusion_vars(rule) \ assumptions_vars(rule) # DOMAIN conclusion_binding
    THEN None
    ELSE apply_loop(rule, assumptions, 1, conclusion_binding)

\* The loop of InferenceRule.is_sound, from the k-th assumption on.
RECURSIVE is_sound_loop(_, _, _)
is_sound_loop(rule, k, f) ==
    IF k > Len(rule.assumptions) THEN f
    ELSE is_sound_loop(rule, k + 1, And(f, rule.assumptions[k]))

is_sound(rule) ==
    is_tauto(Imp(is_sound_loop(rule, 1, ConstTRUE), rule.conclusion))

specialize(rule, binding) ==
    InferenceRule(rule.name \o " specialized",
                  [k \in 1..Len(rule.assumptions) |->
                      subs(rule.assumptions[k], binding)],
                  subs(rule.conclusion, binding))

\* The loop of InferenceRule.is_specialization over zip(self_fs, other_fs),
\* from the k-th pair on.
RECURSIVE is_specialization_loop(_, _, _, _)
is_specialization_loop(self_fs, other_fs, k, global_binding) ==
    IF k > Len(self_fs) THEN TRUE
    ELSE LET binding == pattern_match_first(other_fs[k], self_fs[k])
         IN  IF binding.none
             THEN FALSE
             ELSE LET merged == merge_bindings(global_binding, binding.binding)
                  IN  IF merged.none
                      THEN FALSE
                      ELSE is_specialization_loop(self_fs, other_fs, k + 1,
                                                  merged.binding)

\* A comparison that looks at the assumptions and not at the conclusion.
is_specialization_assumptions_only(self, other) ==
    /\ Len(self.assumptions) = Len(other.assumptions)
    /\ is_specialization_loop(self.assumptions, other.assumptions, 1, EmptyBinding)

is_specialization(self, other) ==
    IF Len(self.assumptions) # Len(other.assumptions)
    THEN FALSE
    ELSE is_specialization_loop(Append(self.assumptions, self.conclusion),
                                Append(other.assumptions, other.conclusion),
                                1, EmptyBinding)

-----------------------------------------------------------------------------
(* inference.py: the three kinds of ProofStep *)

AssumptionInclusion(index) == <<"AssumptionInclusion", index>>
AxiomSpecialization(axiom_index, binding) ==
    <<"AxiomSpecialization", axiom_index, binding>>
RuleApplication(rule, assumption_indices) ==
    <<"RuleApplication", rule, assumption_indices>>

IsAssumptionInclusion(step) == step[1] = "AssumptionInclusion"
IsAxiomSpecialization(step) == step[1] = "AxiomSpecialization"
IsRuleApplication(step) == step[1] = "RuleApplication"

\* list[i] for a Python index i that is in range: a negative index counts
\* from the end of the list.
InRange(list, i) == -Len(list) <= i /\ i < Len(list)
PyItem(list, i) == IF i >= 0 THEN list[i + 1] ELSE list[Len(list) + i + 1]

AssumptionInclusion_apply(step, assumptions) ==
    IF 0 <= step[2] /\ step[2] < Len(assumptions)
    THEN assumptions[step[2] + 1]
    ELSE None

\* A variant that looks at the index and not at the keys of the binding.
AxiomSpecialization_apply_any_keys(step, axioms) ==
    IF 0 <= step[2] /\ step[2] < Len(axioms)
    THEN subs(axioms[step[2] + 1], step[3])
    ELSE None

AxiomSpecialization_apply(step, axioms) ==
    IF 0 <= step[2] /\ step[2] < Len(axioms)
    THEN LET axiom == axioms[step[2] + 1]
         IN  IF DOMAIN step[3] = vars(axiom) THEN subs(axiom, step[3]) ELSE None
    ELSE None

\* RuleApplication.apply: the guard rejects an index at or past the end of the
\* state; state[index] is then read with Python's indexing, which accepts the
\* negative indices down to -len(state) and raises IndexError below that.
RuleApplication_apply(step, state) ==
    LET indices == step[3]
    IN  IF \E k \in 1..Len(indices) : indices[k] + 1 > Len(state)
        THEN None
        ELSE IF \E k \in 1..Len(indices) : ~InRange(state, indices[k])
        THEN Raise("IndexError")
        ELSE InferenceRule_apply(step[2],
                 [k \in 1..Len(indices) |-> PyItem(state, indices[k])],
                 EmptyBinding)

\* Variant of pad that pads the first index only.
pad_first_only(step, n) ==
    RuleApplication(step[2],
        [k \in 1..Len(step[3]) |-> IF k = 1 THEN step[3][k] + n ELSE step[3][k]])

pad(step, n) ==
    RuleApplication(step[2], [k \in 1..Len(step[3]) |-> step[3][k] + n])

-----------------------------------------------------------------------------
(* inference.py: Proof *)

Proof(rules, axioms, assumptions, conclusion, steps) ==
    [rules |-> rules, axioms |-> axioms, assumptions |-> assumptions,
     conclusion |-> conclusion, steps |-> steps]

\* The three assertions of Proof.__init__.
Proof_init_ok(rules, assumptions, steps) ==
    /\ Len(steps) > 0
    /\ NoRepeats(assumptions)
    /\ \A k \in 1..Len(steps) :
           IsRuleApplication(steps[k]) => steps[k][2] \in rules

\* Proof(...) as a call: the object, or the AssertionError of __init__.
NewProof(rules, axioms, assumptions, conclusion, steps) ==
    IF Proof_init_ok(rules, assumptions, steps)
    THEN Ok(Proof(rules, axioms, assumptions, conclusion, steps))
    ELSE Raised("AssertionError")

apply_step(self, step, state) ==
    CASE IsAssumptionInclusion(step) -> AssumptionInclusion_apply(step, self.assumptions)
      [] IsAxiomSpecialization(step) -> AxiomSpecialization_apply(step, self.axioms)
      [] IsRuleApplication(step) -> RuleApplication_apply(step, state)

\* Variant of the loop of Proof.state that goes on after a step has appended
\* None.
RECURSIVE state_loop_past_none(_, _, _)
state_loop_past_none(self, k, state) ==
    IF k > Len(self.steps)
    THEN Ok(state)
    ELSE LET f == apply_step(self, self.steps[k], state)
         IN  IF IsRaise(f) THEN Raised(f[2])
             ELSE state_loop_past_none(self, k + 1, Append(state, f))

\* Variant of the loop of Proof.state that evaluates one more step after the
\* step that has appended None.
RECURSIVE state_loop_one_past_none(_, _, _)
state_loop_one_past_none(self, k, state) ==
    IF k > Len(self.steps)
    THEN Ok(state)
    ELSE LET f == apply_step(self, self.steps[k], state)
         IN  IF IsRaise(f) THEN Raised(f[2])
             ELSE IF IsNone(f)
             THEN state_loop_past_none(
                      [self EXCEPT !.steps = [j \in (1..(k + 1)) \cap DOMAIN self.steps
                                                |-> self.steps[j]]],
                      k + 1, Append(state, f))
             ELSE state_loop_one_past_none(self, k + 1, Append(state, f))

\* The loop of Proof.state from step k on (k counts from 1): it stops after
\* the first step that appends None.
RECURSIVE state_loop(_, _, _)
state_loop(self, k, state) ==
    IF k > Len(self.steps)
    THEN Ok(state)
    ELSE LET f == apply_step(self, self.steps[k], state)
         IN  IF IsRaise(f) THEN Raised(f[2])
             ELSE IF IsNone(f) THEN Ok(Append(state, f))
             ELSE state_loop(self, k + 1, Append(state, f))

state(self) == state_loop(self, 1, <<>>)

\* Proof.check: self.state[-1] == self.conclusion.
check(self) ==
    LET s == state(self)
    IN  IF s.exc # "" THEN Raised(s.exc)
        ELSE Ok(Formula_eq(PyItem(s.val, -1), self.conclusion))

\* sorted(S) for a finite set of integers.
RECURSIVE SortedList(_)
SortedList(S) ==
    IF S = {} THEN <<>>
    ELSE LET m == CHOOSE x \in S : \A y \in S : x <= y
         IN  <<m>> \o SortedList(S \ {m})

EmptyDict == [k \in {} |-> 0]

\* The first exception, in list order, among the outcomes rs.
FirstRaised(rs) ==
    rs[CHOOSE k \in 1..Len(rs) :
          /\ rs[k].exc # ""
          /\ \A j \in 1..(k - 1) : rs[j].exc = ""]

\* Proof.step_dependencies. self.steps[index] is read with Python's indexing.
\* active holds the positions of the calls in progress: a call on one of them
\* repeats forever in the code, which ends in RecursionError. reduce() over
\* an empty list of premises raises TypeError.
RECURSIVE step_dependencies_rec(_, _, _)
step_dependencies_rec(self, index, active) ==
    IF ~InRange(self.steps, index)
    THEN Raised("IndexError")
    ELSE LET pos == IF index >= 0 THEN index ELSE Len(self.steps) + index
             step == self.steps[pos + 1]
         IN  IF ~IsRuleApplication(step) THEN Ok({})
             ELSE IF pos \in active THEN Raised("RecursionError")
             ELSE LET indices == step[3]
                      deps == [k \in 1..Len(indices) |->
                                 step_dependencies_rec(self, indices[k],
                                                       active \cup {pos})]
                  IN  IF \E k \in 1..Len(indices) : deps[k].exc # ""
                      THEN FirstRaised(deps)
                      ELSE IF Len(indices) = 0 THEN Raised("TypeError")
                      ELSE Ok(UNION {deps[k].val : k \in 1..Len(indices)}
                              \cup {indices[k] : k \in 1..Len(indices)})

step_dependencies(self, index) == step_dependencies_rec(self, index, {})

\* The loop of step_subproof over enumerate(steps_indices), from entry n on.
\* acc holds the locals assumptions, assumptions_reindex, steps and
\* steps_reindex, and exc once a statement of the body has raised.
RECURSIVE subproof_loop(_, _, _, _, _)
subproof_loop(self, delete_superflous_assumptions, steps_indices, n, acc) ==
    IF n > Len(steps_indices) \/ acc.exc # ""
    THEN acc
    ELSE LET i_old == steps_indices[n]
             i_new == n - 1
             steps_reindex == (i_old :> i_new) @@ acc.steps_reindex
             step == PyItem(self.steps, i_old)
             next ==
               CASE IsAssumptionInclusion(step) ->
                      IF delete_superflous_assumptions
                      THEN LET i == step[2]
                           IN  IF ~InRange(self.assumptions, i)
                               THEN [acc EXCEPT !.exc = "IndexError"]
                               ELSE LET assumptions ==
                                          Append(acc.assumptions,
                                                 PyItem(self.assumptions, i))
                                        assumptions_reindex ==
                                          IF i \in DOMAIN acc.assumptions_reindex
                                          THEN acc.assumptions_reindex
                                          ELSE (i :> (Len(assumptions) - 1))
                                               @@ acc.assumptions_reindex
                                    IN  [acc EXCEPT
                                           !.assumptions = assumptions,
                                           !.assumptions_reindex = assumptions_reindex,
                                           !.steps = Append(@,
                                              AssumptionInclusion(assumptions_reindex[i])),
                                           !.steps_reindex = steps_reindex]
                      ELSE [acc EXCEPT !.steps = Append(@, step),
                                       !.steps_reindex = steps_reindex]
                 [] IsAxiomSpecialization(step) ->
                      [acc EXCEPT !.steps = Append(@, step),
                                  !.steps_reindex = steps_reindex]
                 [] IsRuleApplication(step) ->
                      IF \E k \in 1..Len(step[3]) : step[3][k] \notin DOMAIN steps_reindex
                      THEN [acc EXCEPT !.exc = "KeyError"]
                      ELSE [acc EXCEPT
                              !.steps = Append(@, RuleApplication(step[2],
                                 [k \in 1..Len(step[3]) |-> steps_reindex[step[3][k]]])),
                              !.steps_reindex = steps_reindex]
         IN  subproof_loop(self, delete_superflous_assumptions, steps_indices,
                           n + 1, next)

\* Proof.step_subproof.
step_subproof(self, index, delete_superflous_assumptions) ==
    LET s == state(self)
    IN  IF s.exc # "" THEN Raised(s.exc)
        ELSE IF ~InRange(s.val, index) THEN Raised("IndexError")
        ELSE IF IsNone(PyItem(s.val, index)) THEN Raised("AssertionError")
        ELSE
        LET new_conclusion == PyItem(s.val, index)
            deps == step_dependencies(self, index)
        IN  IF deps.exc # "" THEN Raised(deps.exc)
            ELSE
            LET steps_indices == SortedList(deps.val \cup {index})
                acc == subproof_loop(self, delete_superflous_assumptions,
                         steps_indices, 1,
                         [assumptions |-> IF delete_superflous_assumptions
                                          THEN <<>> ELSE self.assumptions,
                          assumptions_reindex |-> EmptyDict,
                          steps |-> <<>>,
                          steps_reindex |-> EmptyDict,
                          exc |-> ""])
            IN  IF acc.exc # "" THEN Raised(acc.exc)
                ELSE NewProof(self.rules, self.axioms, acc.assumptions,
                              new_conclusion, acc.steps)

\* Proof.used_assumptions, from step k on.
RECURSIVE used_assumptions_loop(_, _)
used_assumptions_loop(self, k) ==
    IF k > Len(self.steps) THEN <<>>
    ELSE LET step == self.steps[k]
             ass == AssumptionInclusion_apply(step, self.assumptions)
         IN  (IF IsAssumptionInclusion(step) /\ ~IsNone(ass) THEN <<ass>> ELSE <<>>)
             \o used_assumptions_loop(self, k + 1)

\* A variant that takes every listed assumption for a used one.
used_assumptions_all_listed(self) == self.assumptions

used_assumptions(self) == used_assumptions_loop(self, 1)

superflous_assumption(self, assumption) ==
    ~InList(assumption, used_assumptions(self))

delete_superflous_assumptions(self) ==
    step_subproof(self, Len(self.steps) - 1, TRUE)

-----------------------------------------------------------------------------
(* inference.py: proof_mixer *)

\* Variant of the first loop of proof_mixer that appends every assumption of
\* proof2, whether or not the list already holds it.
RECURSIVE mixer_assumptions_loop_append_all(_, _, _)
mixer_assumptions_loop_append_all(proof2, k, acc) ==
    IF k > Len(proof2.assumptions)
    THEN acc
    ELSE mixer_assumptions_loop_append_all(proof2, k + 1,
           [assumptions |-> Append(acc.assumptions, proof2.assumptions[k]),
            reindex |-> ((k - 1) :> Len(acc.assumptions)) @@ acc.reindex])

\* The first loop of proof_mixer, over enumerate(proof2.assumptions), from
\* entry k on (i_old = k - 1).
RECURSIVE mixer_assumptions_loop(_, _, _)
mixer_assumptions_loop(proof2, k, acc) ==
    IF k > Len(proof2.assumptions)
    THEN acc
    ELSE LET assumption == proof2.assumptions[k]
             i_old == k - 1
         IN  mixer_assumptions_loop(proof2, k + 1,
               IF ~InList(assumption, acc.assumptions)
               THEN [assumptions |-> Append(acc.assumptions, assumption),
                     reindex |-> (i_old :> Len(acc.assumptions)) @@ acc.reindex]
               ELSE [assumptions |-> acc.assumptions,
                     reindex |-> (i_old :> ListIndex(assumption, acc.assumptions))
                                 @@ acc.reindex])

\* Variant of the second loop of proof_mixer that leaves out a step of proof2
\* that the list already holds.
RECURSIVE mixer_steps_loop_skip_repeated(_, _, _, _, _)
mixer_steps_loop_skip_repeated(proof1, proof2, reindex_assumptions_proof2, k, steps) ==
    IF k > Len(proof2.steps)
    THEN Ok(steps)
    ELSE LET step == proof2.steps[k]
             new == CASE IsAssumptionInclusion(step) ->
                           IF step[2] \notin DOMAIN reindex_assumptions_proof2
                           THEN Raise("KeyError")
                           ELSE AssumptionInclusion(
                                  reindex_assumptions_proof2[step[2]])
                      [] IsRuleApplication(step) -> pad(step, Len(proof1.steps))
                      [] OTHER -> step
         IN  IF IsRaise(new) THEN Raised(new[2])
             ELSE mixer_steps_loop_skip_repeated(proof1, proof2,
                    reindex_assumptions_proof2, k + 1,
                    IF \E n \in 1..Len(steps) : steps[n][1] = new[1] /\ steps[n] = new
                    THEN steps ELSE Append(steps, new))

\* The second loop of proof_mixer, over proof2.steps, from step k on.
RECURSIVE mixer_steps_loop(_, _, _, _, _)
mixer_steps_loop(proof1, proof2, reindex_assumptions_proof2, k, steps) ==
    IF k > Len(proof2.steps)
    THEN Ok(steps)
    ELSE LET step == proof2.steps[k]
         IN  CASE IsAssumptionInclusion(step) ->
                    IF step[2] \notin DOMAIN reindex_assumptions_proof2
                    THEN Raised("KeyError")
                    ELSE mixer_steps_loop(proof1, proof2,
                           reindex_assumptions_proof2, k + 1,
                           Append(steps, AssumptionInclusion(
                                     reindex_assumptions_proof2[step[2]])))
               [] IsRuleApplication(step) ->
                    mixer_steps_loop(proof1, proof2, reindex_assumptions_proof2,
                           k + 1, Append(steps, pad(step, Len(proof1.steps))))
               [] OTHER ->
                    mixer_steps_loop(proof1, proof2, reindex_assumptions_proof2,
                           k + 1, Append(steps, step))

proof_mixer(proof1, proof2) ==
    IF ~(proof1.axioms = proof2.axioms /\ proof1.rules = proof2.rules)
    THEN Raised("AssertionError")
    ELSE LET acc == mixer_assumptions_loop(proof2, 1,
                      [assumptions |-> proof1.assumptions, reindex |-> EmptyDict])
             steps == mixer_steps_loop(proof1, proof2, acc.reindex, 1, proof1.steps)
         IN  IF steps.exc # "" THEN Raised(steps.exc)
             ELSE Ok([assumptions |-> acc.assumptions, steps |-> steps.val])

-----------------------------------------------------------------------------
(* hilbert_system.py *)

A == Var("A")
B == Var("B")
C == Var("C")

MP == InferenceRule("MP", <<A, Imp(A, B)>>, B)

PCProof_axioms ==
    << Imp(B, Imp(A, B)),
       Imp(Imp(A, Imp(B, C)), Imp(Imp(A, B), Imp(A, C))),
       Imp(Imp(Neg(B), Neg(A)), Imp(Imp(Neg(B), A), B)) >>

PCProof(assumptions, conclusion, steps) ==
    NewProof({MP}, PCProof_axioms, assumptions, conclusion, steps)

from_proof(proof) ==
    IF proof.rules # {MP} \/ proof.axioms # PCProof_axioms
    THEN Raised("AssertionError")
    ELSE PCProof(proof.assumptions, proof.conclusion, proof.steps)

assumption_to_implication_case(proof, assumption) ==
    IF superflous_assumption(proof, assumption)
    THEN Ok(1)
    ELSE IF IsImp(proof.conclusion) /\ Formula_eq(proof.conclusion[3], assumption)
    THEN Ok(2)
    ELSE LET last_step == PyItem(proof.steps, -1)
         IN  IF IsRuleApplication(last_step) /\ last_step[2] = MP
             THEN Ok(3)
             ELSE Raised("AssertionError")

\* PCProof.from_proof(x) and "raise if x raised" for an outcome x.
then_from_proof(x) == IF x.exc # "" THEN Raised(x.exc) ELSE from_proof(x.val)

\* Case 1 after proof = PCProof.from_proof(...): the axiom step is appended
\* to the local proof, then len(proof.ssssteps) reads an attribute that no
\* Proof has, which raises AttributeError.
case_1(local) ==
    IF local.exc # "" THEN Raised(local.exc) ELSE Raised("AttributeError")

\* Variant of case 2 that keeps the whole assumption list.
case_2_all_assumptions(proof, assumption) ==
    PCProof(proof.assumptions,
            Imp(assumption, proof.conclusion),
            <<AxiomSpecialization(0,
                ("A" :> proof.conclusion[2]) @@ ("B" :> assumption))>>)

case_2(proof, assumption) ==
    LET k == ListIndex(assumption, proof.assumptions)
    IN  PCProof([j \in 1..(Len(proof.assumptions) - 1) |->
                   IF j <= k THEN proof.assumptions[j]
                   ELSE proof.assumptions[j + 1]],
                Imp(assumption, proof.conclusion),
                <<AxiomSpecialization(0,
                    ("A" :> proof.conclusion[2]) @@ ("B" :> assumption))>>)

\* Case 3 after assumptions, steps = proof_mixer(p1, p2).
case_3_steps(proof, assumption, p1, assumptions, steps) ==
    LET steps1 == Append(steps,
                    AxiomSpecialization(1,
                      ("A" :> assumption) @@ ("B" :> p1.conclusion[3])
                      @@ ("C" :> proof.conclusion)))
        proof_len == Len(assumptions) + Len(steps1)
        steps2 == Append(steps1,
                    RuleApplication(MP, <<proof_len - 2, proof_len - 1>>))
        steps3 == Append(steps2,
                    RuleApplication(MP,
                      <<Len(assumptions) + Len(p1.steps) - 1, proof_len>>))
    IN  PCProof(assumptions, Imp(assumption, proof.conclusion), steps3)

case_3_mixed(proof, assumption, p1, mixed) ==
    IF mixed.exc # "" THEN Raised(mixed.exc)
    ELSE case_3_steps(proof, assumption, p1, mixed.val.assumptions, mixed.val.steps)

\* Case 3 after the two recursive calls, p1 first.
case_3(proof, assumption, p1, p2) ==
    IF p1.exc # "" THEN Raised(p1.exc)
    ELSE IF p2.exc # "" THEN Raised(p2.exc)
    ELSE case_3_mixed(proof, assumption, p1.val, proof_mixer(p1.val, p2.val))

RECURSIVE assumption_to_implication(_, _)

\* assumption_to_implication(PCProof.from_proof(sub), assumption).
discharge_from(sub, assumption) ==
    IF sub.exc # "" THEN Raised(sub.exc)
    ELSE assumption_to_implication(sub.val, assumption)

assumption_to_implication_of(proof, assumption, case) ==
    IF case.exc # "" THEN Raised(case.exc)
    ELSE IF case.val = 1
    THEN case_1(then_from_proof(delete_superflous_assumptions(proof)))
    ELSE IF case.val = 2
    THEN case_2(proof, assumption)
    ELSE case_3(proof, assumption,
           discharge_from(then_from_proof(
               step_subproof(proof, PyItem(proof.steps, -1)[3][1], FALSE)),
               assumption),
           discharge_from(then_from_proof(
               step_subproof(proof, PyItem(proof.steps, -1)[3][2], FALSE)),
               assumption))

assumption_to_implication(proof, assumption) ==
    assumption_to_implication_of(proof, assumption,
        assumption_to_implication_case(proof, assumption))

-----------------------------------------------------------------------------
(* inference.py and hilbert_system.py, with the identity of the lists *)

\* The same three functions, following which list each statement writes. A
\* list is an object of the heap h, a Proof object holds the references of
\* its assumption list and of its step list, and a call returns the heap it
\* leaves with its outcome: [heap |-> h, out |-> Ok(reference) or Raised(e)].

\* A new object, [] or [x] or an instance, takes the next place of the heap.
new_object(h, object) == [heap |-> Append(h, object), ref |-> Len(h) + 1]

\* Variant of list.copy() that hands back the list itself.
list_same(h, ref) == [heap |-> h, ref |-> ref]

\* list.copy(): a new list with the same items.
list_copy(h, ref) == new_object(h, h[ref])

\* The Proof value that the object at ref holds.
proof_at(h, ref) ==
    Proof(h[ref].rules, h[ref].axioms, h[h[ref].assumptions],
          h[ref].conclusion, h[h[ref].steps])

\* Proof.__init__ on a list of assumptions and a list of steps: the object
\* keeps the two lists it is given, formulas_to_list returning a list as is.
Proof_of_lists(h, rules, axioms, assumptions, conclusion, steps) ==
    IF Proof_init_ok(rules, h[assumptions], h[steps])
    THEN LET new == new_object(h, Proof(rules, axioms, assumptions,
                                        conclusion, steps))
         IN  [heap |-> new.heap, out |-> Ok(new.ref)]
    ELSE [heap |-> h, out |-> Raised("AssertionError")]

\* Proof.step_subproof after assumptions = [] or self.assumptions.copy():
\* steps = [] is a new list, the loop appends to these two lists only, and
\* Proof(...) is given them. When it raises, nothing holds the lists it made,
\* and they are left out of the heap.
step_subproof_filled(h, self, assumptions, sub) ==
    IF sub.exc # "" THEN [heap |-> h, out |-> Raised(sub.exc)]
    ELSE Proof_of_lists(
           new_object([assumptions.heap EXCEPT ![assumptions.ref] =
                          sub.val.assumptions],
                      sub.val.steps).heap,
           h[self].rules, h[self].axioms, assumptions.ref,
           sub.val.conclusion, Len(assumptions.heap) + 1)

step_subproof_heap(h, self, index, delete) ==
    step_subproof_filled(h, self,
        IF delete THEN new_object(h, <<>>) ELSE list_copy(h, h[self].assumptions),
        step_subproof(proof_at(h, self), index, delete))

\* The steps that the second loop of proof_mixer has appended when it ends or
\* raises: the renumbered steps of proof2 before the first AssumptionInclusion
\* that reindex_assumptions_proof2 does not hold.
RECURSIVE mixer_steps_appended(_, _, _, _, _)
mixer_steps_appended(proof1, proof2, reindex_assumptions_proof2, k, steps) ==
    IF k > Len(proof2.steps)
    THEN steps
    ELSE LET step == proof2.steps[k]
         IN  CASE IsAssumptionInclusion(step) ->
                    IF step[2] \notin DOMAIN reindex_assumptions_proof2
                    THEN steps
                    ELSE mixer_steps_appended(proof1, proof2,
                           reindex_assumptions_proof2, k + 1,
                           Append(steps, AssumptionInclusion(
                                     reindex_assumptions_proof2[step[2]])))
               [] IsRuleApplication(step) ->
                    mixer_steps_appended(proof1, proof2, reindex_assumptions_proof2,
                           k + 1, Append(steps, pad(step, Len(proof1.steps))))
               [] OTHER ->
                    mixer_steps_appended(proof1, proof2, reindex_assumptions_proof2,
                           k + 1, Append(steps, step))

\* proof_mixer after the first loop has appended to assumptions, the copy of
\* proof1.assumptions: steps is the copy of proof1.steps, the second loop
\* appends to it, and the two copies are returned unless the loop raised.
mixer_steps_heap(proof1, proof2, assumptions, steps, reindex, returned) ==
    [heap |-> [steps.heap EXCEPT ![steps.ref] =
                  mixer_steps_appended(proof1, proof2, reindex, 1, @)],
     out |-> IF returned.exc # "" THEN Raised(returned.exc)
             ELSE Ok([assumptions |-> assumptions, steps |-> steps.ref])]

\* proof_mixer after assumptions = proof1.assumptions.copy() and the first
\* loop, which leaves acc.
mixer_assumptions_heap(h, proof1, proof2, assumptions, acc) ==
    mixer_steps_heap(proof_at(h, proof1), proof_at(h, proof2), assumptions.ref,
        list_copy([assumptions.heap EXCEPT ![assumptions.ref] = acc.assumptions],
                  h[proof1].steps),
        acc.reindex,
        proof_mixer(proof_at(h, proof1), proof_at(h, proof2)))

proof_mixer_heap(h, proof1, proof2) ==
    IF ~(h[proof1].axioms = h[proof2].axioms /\ h[proof1].rules = h[proof2].rules)
    THEN [heap |-> h, out |-> Raised("AssertionError")]
    ELSE mixer_assumptions_heap(h, proof1, proof2,
           list_copy(h, h[proof1].assumptions),
           mixer_assumptions_loop(proof_at(h, proof2), 1,
             [assumptions |-> h[h[proof1].assumptions], reindex |-> EmptyDict]))

\* PCProof.from_proof(x) for the outcome x of a call: the new object keeps
\* the two lists of the object it is made from.
from_proof_heap(x) ==
    IF x.out.exc # "" THEN x
    ELSE IF x.heap[x.out.val].rules # {MP}
            \/ x.heap[x.out.val].axioms # PCProof_axioms
    THEN [heap |-> x.heap, out |-> Raised("AssertionError")]
    ELSE Proof_of_lists(x.heap, {MP}, PCProof_axioms,
                        x.heap[x.out.val].assumptions,
                        x.heap[x.out.val].conclusion,
                        x.heap[x.out.val].steps)

\* Case 2 after assumptions = proof.assumptions.copy(): remove writes that
\* copy, and the step list is a new list of one step.
case_2_removed(h, proof, assumption, assumptions, k) ==
    Proof_of_lists(
        new_object([assumptions.heap EXCEPT ![assumptions.ref] =
                      [j \in 1..(Len(@) - 1) |-> IF j <= k THEN @[j] ELSE @[j + 1]]],
                   <<AxiomSpecialization(0,
                       ("A" :> h[proof].conclusion[2]) @@ ("B" :> assumption))>>).heap,
        {MP}, PCProof_axioms, assumptions.ref,
        Imp(assumption, h[proof].conclusion), Len(assumptions.heap) + 1)

case_2_heap(h, proof, assumption) ==
    case_2_removed(h, proof, assumption,
                   list_copy(h, h[proof].assumptions),
                   ListIndex(assumption, h[h[proof].assumptions]))

\* Case 3 after the first append: proof_len is read, the first application
\* of MP is appended, len(p1.steps) is read and the second one is appended,
\* all to the step list that proof_mixer returned.
case_3_append(h, p1, assumptions, steps) ==
    LET proof_len == Len(h[assumptions]) + Len(h[steps])
        appended == [h EXCEPT ![steps] = Append(@,
                       RuleApplication(MP, <<proof_len - 2, proof_len - 1>>))]
    IN  [appended EXCEPT ![steps] = Append(@,
           RuleApplication(MP,
             <<Len(appended[assumptions]) + Len(appended[appended[p1].steps]) - 1,
               proof_len>>))]

\* Case 3 after assumptions, steps = proof_mixer(p1, p2).
case_3_mixed_heap(proof, assumption, p1, mixed) ==
    IF mixed.out.exc # "" THEN mixed
    ELSE IF ~IsImp(mixed.heap[p1].conclusion)
    THEN [heap |-> mixed.heap, out |-> Raised("AssertionError")]
    ELSE Proof_of_lists(
           case_3_append(
               [mixed.heap EXCEPT ![mixed.out.val.steps] = Append(@,
                   AxiomSpecialization(1,
                     ("A" :> assumption) @@ ("B" :> mixed.heap[p1].conclusion[3])
                     @@ ("C" :> mixed.heap[proof].conclusion)))],
               p1, mixed.out.val.assumptions, mixed.out.val.steps),
           {MP}, PCProof_axioms, mixed.out.val.assumptions,
           Imp(assumption, mixed.heap[proof].conclusion), mixed.out.val.steps)

RECURSIVE assumption_to_implication_heap(_, _, _)

\* assumption_to_implication(x, assumption) for the outcome x of from_proof.
discharge_heap(x, assumption) ==
    IF x.out.exc # "" THEN x
    ELSE assumption_to_implication_heap(x.heap, x.out.val, assumption)

\* Case 3 after p2: proof_mixer(p1, p2) and the appends.
case_3_second(proof, assumption, p1, p2) ==
    IF p2.out.exc # "" THEN p2
    ELSE case_3_mixed_heap(proof, assumption, p1,
                           proof_mixer_heap(p2.heap, p1, p2.out.val))

\* Case 3 after p1: the recursive call on the subproof of the step at i2.
case_3_first(proof, assumption, i2, p1) ==
    IF p1.out.exc # "" THEN p1
    ELSE case_3_second(proof, assumption, p1.out.val,
           discharge_heap(from_proof_heap(
               step_subproof_heap(p1.heap, proof, i2, FALSE)), assumption))

\* assumption_to_implication after proof = PCProof.from_proof(...) of case 1,
\* or after p1 of case 3. In case 1, proof.steps.append(AxS(...)) writes the
\* step list of the local proof, then proof.ssssteps raises.
assumption_to_implication_cases(h, proof, assumption, case, local) ==
    IF case.exc # "" THEN [heap |-> h, out |-> Raised(case.exc)]
    ELSE IF case.val = 1
    THEN IF local.out.exc # "" THEN local
         ELSE [heap |-> [local.heap EXCEPT ![local.heap[local.out.val].steps] =
                           Append(@, AxiomSpecialization(0,
                             ("A" :> assumption)
                             @@ ("B" :> local.heap[local.out.val].conclusion)))],
               out |-> Raised("AttributeError")]
    ELSE IF case.val = 2
    THEN case_2_heap(h, proof, assumption)
    ELSE case_3_first(proof, assumption, PyItem(h[h[proof].steps], -1)[3][2],
           discharge_heap(from_proof_heap(
               step_subproof_heap(h, proof, PyItem(h[h[proof].steps], -1)[3][1],
                                  FALSE)), assumption))

assumption_to_implication_heap(h, proof, assumption) ==
    assumption_to_implication_cases(h, proof, assumption,
        assumption_to_implication_case(proof_at(h, proof), assumption),
        from_proof_heap(
            step_subproof_heap(h, proof, Len(h[h[proof].steps]) - 1, TRUE)))

-----------------------------------------------------------------------------
(* examples/proofs.py *)

absurd ==
    PCProof(<<Neg(A), A>>, B,
      << AssumptionInclusion(0), AssumptionInclusion(1),
         AxiomSpecialization(0, ("A" :> Neg(B)) @@ ("B" :> A)),
         AxiomSpecialization(0, ("A" :> Neg(B)) @@ ("B" :> Neg(A))),
         RuleApplication(MP, <<1, 2>>),
         RuleApplication(MP, <<0, 3>>),
         AxiomSpecialization(2, ("A" :> A) @@ ("B" :> B)),
         RuleApplication(MP, <<5, 6>>),
         RuleApplication(MP, <<4, 7>>) >>).val

a_from_a == PCProof(<<A>>, A, <<AssumptionInclusion(0)>>).val

a_implies_a ==
    PCProof(<<>>, Imp(A, A),
      << AxiomSpecialization(0, ("A" :> A) @@ ("B" :> A)),
         AxiomSpecialization(0, ("A" :> Imp(A, A)) @@ ("B" :> A)),
         AxiomSpecialization(1, ("A" :> A) @@ ("B" :> Imp(A, A)) @@ ("C" :> A)),
         RuleApplication(MP, <<1, 2>>),
         RuleApplication(MP, <<0, 3>>) >>).val

implication_transitivity ==
    PCProof(<<Imp(A, B), Imp(B, C)>>, Imp(A, C),
      << AssumptionInclusion(0), AssumptionInclusion(1),
         AxiomSpecialization(0, ("B" :> Imp(B, C)) @@ ("A" :> A)),
         RuleApplication(MP, <<1, 2>>),
         AxiomSpecialization(1, ("A" :> A) @@ ("B" :> B) @@ ("C" :> C)),
         RuleApplication(MP, <<3, 4>>),
         RuleApplication(MP, <<0, 5>>) >>).val

mp_application ==
    PCProof(<<Imp(A, B), A>>, B,
      << AssumptionInclusion(0), AssumptionInclusion(1),
         RuleApplication(MP, <<1, 0>>) >>).val

-----------------------------------------------------------------------------
(* The callers of the engine: a caller writes an assumption list and a step  *)
(* list, constructs a PCProof from them and calls one operation on it.       *)

VARIABLES assumptions, steps, proof, pc, call, result, stack, heap

\* stack is the list that is the default value of the parameter stack of
\* Formula.parse_polish: one list, created when the function is defined and
\* shared by every call that passes no stack.
\* heap holds the list objects and the Proof objects of the callers that
\* follow them by identity: a reference is the place of an object in heap.
vars_ == <<assumptions, steps, proof, pc, call, result, stack, heap>>

MaxSteps == 3

\* The assumption lists and the steps a caller writes.
AssumptionPool == {A, Imp(A, B)}
AssumptionLists ==
    {<<>>} \cup {<<f>> : f \in AssumptionPool}
    \cup {l \in AssumptionPool \X AssumptionPool : l[1] # l[2]}
IndexPool == -1..(MaxSteps - 1)
BindingPool ==
    {("A" :> A) @@ ("B" :> A), ("A" :> A), ("A" :> A) @@ ("B" :> A) @@ ("C" :> A)}
StepPool ==
    {AssumptionInclusion(i) : i \in -1..2}
    \cup {AxiomSpecialization(0, b) : b \in BindingPool}
    \cup {AxiomSpecialization(i, ("A" :> A) @@ ("B" :> A)) :
            i \in {-1, Len(PCProof_axioms)}}
    \cup {RuleApplication(MP, <<i, j>>) : i \in IndexPool, j \in IndexPool}

\* Rules of other arities than MP's, for the proofs of a caller's own system.
top_rule == InferenceRule("top", <<>>, ConstTRUE)
dn_rule == InferenceRule("dn", <<Neg(Neg(A))>>, A)
OwnRules == {MP, top_rule, dn_rule}

\* Longer step lists, written whole.
twice_a ==
    << AssumptionInclusion(0),
       AxiomSpecialization(0, ("A" :> A) @@ ("B" :> A)),
       RuleApplication(MP, <<0, 1>>),
       AssumptionInclusion(0),
       RuleApplication(MP, <<3, 2>>) >>
a_by_axioms ==
    << AssumptionInclusion(0),
       AxiomSpecialization(0, ("A" :> B) @@ ("B" :> A)),
       RuleApplication(MP, <<0, 1>>),
       AxiomSpecialization(0, ("A" :> Imp(B, A)) @@ ("B" :> A)),
       RuleApplication(MP, <<0, 3>>),
       RuleApplication(MP, <<2, 4>>) >>
b_implies_a(k) ==
    << AssumptionInclusion(0), AssumptionInclusion(1),
       AxiomSpecialization(0, ("A" :> B) @@ ("B" :> A)),
       RuleApplication(MP, <<k, 2>>) >>
WrittenWhole ==
    { <<absurd.assumptions, absurd.steps>>,
      <<a_implies_a.assumptions, a_implies_a.steps>>,
      <<implication_transitivity.assumptions, implication_transitivity.steps>>,
      <<<<A>>, twice_a>>,
      <<<<A>>, a_by_axioms>>,
      <<<<A, Imp(A, B)>>, a_by_axioms>>,
      <<<<A, Imp(A, B)>>, b_implies_a(0)>>,
      <<<<Imp(A, B), A>>, b_implies_a(1)>>,
      <<<<>>, <<RuleApplication(top_rule, <<>>)>>>>,
      <<<<Neg(Neg(A)), Imp(A, B)>>,
        <<AssumptionInclusion(0), RuleApplication(dn_rule, <<0>>),
          AssumptionInclusion(1), RuleApplication(MP, <<1, 2>>)>>>> }

\* The proofs a built proof is mixed with; the last one is a Proof over an
\* empty axiom list.
OtherProofs ==
    { absurd, a_from_a, a_implies_a, implication_transitivity, mp_application,
      Proof({MP}, <<>>, <<A>>, A, <<AssumptionInclusion(0)>>) }

NoProof == Proof({}, <<>>, <<>>, None, <<>>)
NoCall == [op |-> "", index |-> 0, delete |-> FALSE, assumption |-> None,
           other |-> NoProof, first |-> FALSE]
NoResult == Raised("")

\* The step list evaluates without raising, and up to its last step.
Evaluated(ass, sts) ==
    LET s == state(Proof({MP}, PCProof_axioms, ass, None, sts))
    IN  s.exc = "" /\ Len(s.val) = Len(sts)

\* The conclusions a caller states: the formula of the last step, or A.
Conclusions(ass, sts) ==
    LET s == state(Proof({MP}, PCProof_axioms, ass, None, sts))
    IN  {A} \cup (IF s.exc = "" /\ Len(s.val) > 0 /\ ~IsNone(PyItem(s.val, -1))
                  THEN {PyItem(s.val, -1)} ELSE {})

Init ==
    /\ \/ assumptions \in AssumptionLists /\ steps = <<>>
       \/ \E w \in WrittenWhole : assumptions = w[1] /\ steps = w[2]
    /\ proof = NoProof
    /\ pc = "build"
    /\ call = NoCall
    /\ result = NoResult
    /\ stack = <<>>
    /\ heap = <<>>

AppendStep ==
    /\ pc = "build"
    /\ Len(steps) < MaxSteps
    /\ Evaluated(assumptions, steps)
    /\ \E s \in StepPool : steps' = Append(steps, s)
    /\ UNCHANGED <<assumptions, proof, pc, call, result>>
    /\ UNCHANGED <<stack, heap>>

Construct ==
    /\ pc = "build"
    /\ Len(steps) > 0
    /\ \E c \in Conclusions(assumptions, steps) :
          LET new == PCProof(assumptions, c, steps)
          IN  /\ new.exc = ""
              /\ proof' = new.val
    /\ pc' = "proof"
    /\ UNCHANGED <<assumptions, steps, call, result>>
    /\ UNCHANGED <<stack, heap>>

\* A caller whose steps apply a rule other than MP constructs a Proof over
\* the rules of their own system.
ConstructProof ==
    /\ pc = "build"
    /\ \E k \in 1..Len(steps) :
          IsRuleApplication(steps[k]) /\ steps[k][2] # MP
    /\ \E c \in Conclusions(assumptions, steps) \cup {ConstTRUE} :
          LET new == NewProof(OwnRules, PCProof_axioms, assumptions, c, steps)
          IN  /\ new.exc = ""
              /\ proof' = new.val
    /\ pc' = "proof"
    /\ UNCHANGED <<assumptions, steps, call, result>>
    /\ UNCHANGED <<stack, heap>>

CallStepDependencies ==
    /\ pc = "proof"
    /\ \E i \in 0..(Len(proof.steps) - 1) :
          /\ call' = [NoCall EXCEPT !.op = "step_dependencies", !.index = i]
          /\ result' = step_dependencies(proof, i)
    /\ pc' = "done"
    /\ UNCHANGED <<assumptions, steps, proof>>
    /\ UNCHANGED <<stack, heap>>

CallUsedAssumptions ==
    /\ pc = "proof"
    /\ call' = [NoCall EXCEPT !.op = "used_assumptions"]
    /\ result' = Ok(used_assumptions(proof))
    /\ pc' = "done"
    /\ UNCHANGED <<assumptions, steps, proof>>
    /\ UNCHANGED <<stack, heap>>

CallSuperflousAssumption ==
    /\ pc = "proof"
    /\ \E a \in AssumptionPool \cup {B, Neg(Neg(A))} :
          /\ call' = [NoCall EXCEPT !.op = "superflous_assumption",
                                    !.assumption = a]
          /\ result' = Ok(superflous_assumption(proof, a))
    /\ pc' = "done"
    /\ UNCHANGED <<assumptions, steps, proof>>
    /\ UNCHANGED <<stack, heap>>

CallState ==
    /\ pc = "proof"
    /\ call' = [NoCall EXCEPT !.op = "state"]
    /\ result' = state(proof)
    /\ pc' = "done"
    /\ UNCHANGED <<assumptions, steps, proof>>
    /\ UNCHANGED <<stack, heap>>

CallCheck ==
    /\ pc = "proof"
    /\ call' = [NoCall EXCEPT !.op = "check"]
    /\ result' = check(proof)
    /\ pc' = "done"
    /\ UNCHANGED <<assumptions, steps, proof>>
    /\ UNCHANGED <<stack, heap>>

CallStepSubproof ==
    /\ pc = "proof"
    /\ \E i \in 0..(Len(proof.steps) - 1), d \in BOOLEAN :
          /\ call' = [NoCall EXCEPT !.op = "step_subproof", !.index = i, !.delete = d]
          /\ result' = step_subproof(proof, i, d)
    /\ pc' = "done"
    /\ UNCHANGED <<assumptions, steps, proof>>
    /\ UNCHANGED <<stack, heap>>

CallProofMixer ==
    /\ pc = "proof"
    /\ \E o \in OtherProofs, f \in BOOLEAN :
          /\ call' = [NoCall EXCEPT !.op = "proof_mixer", !.other = o, !.first = f]
          /\ result' = IF f THEN proof_mixer(proof, o) ELSE proof_mixer(o, proof)
    /\ pc' = "done"
    /\ UNCHANGED <<assumptions, steps, proof>>
    /\ UNCHANGED <<stack, heap>>

CallAssumptionToImplication ==
    /\ pc = "proof"
    /\ \E a \in AssumptionPool :
          /\ call' = [NoCall EXCEPT !.op = "assumption_to_implication",
                                    !.assumption = a]
          /\ result' = assumption_to_implication(proof, a)
    /\ pc' = "done"
    /\ UNCHANGED <<assumptions, steps, proof>>
    /\ UNCHANGED <<stack, heap>>

Next ==
    \/ AppendStep
    \/ Construct
    \/ CallCheck
    \/ CallStepSubproof
    \/ CallProofMixer
    \/ CallAssumptionToImplication
    \/ ConstructProof
    \/ CallStepDependencies
    \/ CallUsedAssumptions
    \/ CallSuperflousAssumption
    \/ CallState

Spec == Init /\ [][Next]_vars_

-----------------------------------------------------------------------------
(* The callers of the operations on formulas and inference rules: a caller  *)
(* chooses an operation and its arguments, and calls it once.                *)

absurd_rule == InferenceRule("absurd", <<A, Neg(A)>>, B)

\* The formulas, the inference rules and the bindings a caller passes.
Atoms == {A, B, ConstTRUE}
Formulas ==
    Atoms \cup {Neg(f) : f \in Atoms}
    \cup {Imp(f, g) : f \in Atoms, g \in Atoms}
    \cup {And(f, g) : f \in Atoms, g \in Atoms}
    \cup {Neg(Neg(A)), Neg(Neg(Neg(B))), And(Neg(A), Neg(A))}
InferenceRules ==
    { MP, absurd_rule,
      dn_rule, top_rule,
      InferenceRule("conj", <<A, B>>, And(A, B)),
      InferenceRule("twice", <<A, A>>, A),
      InferenceRule("weaken", <<A>>, Imp(B, A)),
      InferenceRule("same", <<And(A, A)>>, Neg(A)) }
FormulaLists ==
    {<<>>} \cup {<<f>> : f \in Formulas}
    \cup {<<f, g>> : f \in Formulas, g \in Formulas}
    \cup {<<f, Imp(f, g)>> : f \in Formulas, g \in Formulas}
    \cup {<<f, Neg(f)>> : f \in Formulas}
ConclusionBindings ==
    {EmptyBinding, ("B" :> A), ("B" :> Imp(A, B)), ("A" :> B),
     ("A" :> A) @@ ("B" :> B)}

ApplyCalls ==
    {[op |-> "apply", rule |-> r, assumptions |-> l, conclusion_binding |-> b] :
        r \in InferenceRules, l \in FormulaLists, b \in ConclusionBindings}

SpecializeBindings ==
    {EmptyBinding, ("A" :> B), ("B" :> ConstTRUE), ("A" :> Neg(A)) @@ ("B" :> A),
     ("A" :> And(A, B)) @@ ("B" :> Imp(A, A))}
SpecializeCalls ==
    {[op |-> "specialize", rule |-> r, binding |-> b] :
        r \in InferenceRules, b \in SpecializeBindings}
IsSpecializationCalls ==
    {[op |-> "is_specialization", self |-> r, other |-> o] :
        r \in InferenceRules
              \cup {specialize(q, b) : q \in InferenceRules, b \in SpecializeBindings},
        o \in InferenceRules}

SoundnessPool ==
    {A, B, Neg(A), Imp(A, B), Or(A, Neg(A)), And(A, B), ConstTRUE, ConstFALSE}
IsSoundCalls ==
    {[op |-> "is_sound", rule |-> InferenceRule("test", l, c)] :
        l \in {<<>>} \cup {<<f>> : f \in SoundnessPool}
                    \cup {<<f, g>> : f \in SoundnessPool, g \in SoundnessPool},
        c \in SoundnessPool}
    \cup {[op |-> "is_sound", rule |-> r] : r \in InferenceRules}

Patterns ==
    {A, ConstTRUE, Neg(A), Neg(Neg(A)), And(A, B), And(A, A), Imp(A, Neg(B)),
     And(A, ConstTRUE), Or(A, Neg(A))}
Subjects ==
    Formulas
    \cup {And(f, g) : f \in {Neg(A), And(A, B), Neg(Neg(B))},
                      g \in {B, Neg(A), And(B, B), Imp(A, Neg(B))}}
    \cup {Or(And(A, Neg(A)), Neg(Neg(And(B, B)))),
          Imp(Neg(And(A, ConstTRUE)), Or(Neg(B), Neg(Neg(B)))),
          And(And(And(A, A), B), And(A, And(B, B)))}
PatternMatchCalls ==
    {[op |-> "pattern_match", pattern |-> p, subject |-> f, traverse_order |-> o] :
        p \in Patterns, f \in Subjects, o \in {PREORDER, BREADTH_FIRST}}

\* The heads and bodies of the rule sets a caller builds and hands to
\* Rule.check_cycles.
P == Var("P")
Q == Var("Q")
RulePairLists ==
    { <<<<P, Q>>, <<Q, P>>>>,
      <<<<And(P, Q), P>>>>,
      <<<<Neg(Neg(P)), P>>, <<P, Neg(Neg(P))>>>>,
      <<<<And(P, Q), And(Q, P)>>>>,
      <<<<And(P, Q), Or(P, Q)>>, <<Or(P, Q), And(Q, P)>>>>,
      <<<<Imp(P, Q), Or(Neg(P), Q)>>, <<Neg(Neg(P)), P>>>>,
      <<<<Neg(P), Q>>>>,
      <<>> }
CheckCyclesCalls ==
    {[op |-> "check_cycles", pairs |-> l] : l \in RulePairLists}

IsTautoCalls ==
    {[op |-> "is_tauto", f |-> f] :
        f \in Formulas \cup SoundnessPool
              \cup {Or(f, g) : f \in {A, Neg(A), ConstFALSE, And(A, B)},
                               g \in {A, Neg(A), B, ConstTRUE, Imp(B, A)}}
              \cup {Imp(A, Imp(B, A)), Imp(And(A, Imp(A, B)), B),
                    Or(Or(A, Var("C")), Neg(And(A, B))),
                    Imp(Imp(Imp(A, B), A), A), Neg(And(A, Neg(A))),
                    And(Or(A, Neg(A)), Or(B, Neg(B))), Neg(ConstFALSE),
                    And(A, ConstFALSE), Imp(ConstFALSE, A), Neg(Neg(ConstTRUE))}}

\* The rewrite rules and the formulas of the apply_first calls.
RewriteRules ==
    { Rule(Neg(Neg(A)), A),
      Rule(Imp(A, B), Or(Neg(A), B)),
      Rule(And(A, A), A),
      Rule(And(A, B), And(B, A)),
      Rule(Neg(And(A, B)), Or(Neg(A), Neg(B))),
      Rule(And(A, ConstTRUE), A),
      Rule(A, Neg(Neg(A))) }
ApplyFirstCalls ==
    {[op |-> "apply_first", rule |-> r, value |-> f, traverse_order |-> o] :
        r \in RewriteRules,
        f \in Subjects \cup {And(And(Neg(Neg(A)), B), Neg(Neg(B))),
                             And(And(A, Neg(Neg(B))), Neg(Neg(B)))},
        o \in {PREORDER, BREADTH_FIRST}}

RuleCalls ==
    ApplyFirstCalls \cup IsTautoCalls \cup PatternMatchCalls \cup ApplyCalls \cup SpecializeCalls \cup IsSpecializationCalls
    \cup IsSoundCalls \cup CheckCyclesCalls

RuleInit ==
    /\ assumptions = <<>>
    /\ steps = <<>>
    /\ proof = NoProof
    /\ pc = "call"
    /\ call \in RuleCalls
    /\ result = NoResult
    /\ stack = <<>>
    /\ heap = <<>>

CallApply ==
    /\ pc = "call"
    /\ call.op = "apply"
    /\ result' = Ok(InferenceRule_apply(call.rule, call.assumptions,
                                        call.conclusion_binding))
    /\ pc' = "done"
    /\ UNCHANGED <<assumptions, steps, proof, call>>
    /\ UNCHANGED <<stack, heap>>

CallSpecialize ==
    /\ pc = "call"
    /\ call.op = "specialize"
    /\ result' = Ok(specialize(call.rule, call.binding))
    /\ pc' = "done"
    /\ UNCHANGED <<assumptions, steps, proof, call>>
    /\ UNCHANGED <<stack, heap>>

CallIsSpecialization ==
    /\ pc = "call"
    /\ call.op = "is_specialization"
    /\ result' = Ok(is_specialization(call.self, call.other))
    /\ pc' = "done"
    /\ UNCHANGED <<assumptions, steps, proof, call>>
    /\ UNCHANGED <<stack, heap>>

CallIsSound ==
    /\ pc = "call"
    /\ call.op = "is_sound"
    /\ result' = is_sound(call.rule)
    /\ pc' = "done"
    /\ UNCHANGED <<assumptions, steps, proof, call>>
    /\ UNCHANGED <<stack, heap>>

CallPatternMatch ==
    /\ pc = "call"
    /\ call.op = "pattern_match"
    /\ result' = Ok(pattern_match(call.pattern, call.subject, call.traverse_order))
    /\ pc' = "done"
    /\ UNCHANGED <<assumptions, steps, proof, call>>
    /\ UNCHANGED <<stack, heap>>

\* The caller builds the rules, Rule(head, body) for each pair in turn, and
\* calls Rule.check_cycles on the list.
BuildRulesAndCheckCycles ==
    /\ pc = "call"
    /\ call.op = "check_cycles"
    /\ result' = IF \E k \in 1..Len(call.pairs) :
                        ~Rule_init_ok(call.pairs[k][1], call.pairs[k][2])
                 THEN Raised("AssertionError")
                 ELSE Ok(check_cycles([k \in 1..Len(call.pairs) |->
                                         Rule(call.pairs[k][1], call.pairs[k][2])]))
    /\ pc' = "done"
    /\ UNCHANGED <<assumptions, steps, proof, call>>
    /\ UNCHANGED <<stack, heap>>

CallApplyFirst ==
    /\ pc = "call"
    /\ call.op = "apply_first"
    /\ result' = LET r == apply_first(call.rule, call.value, call.traverse_order)
                 IN  IF IsRaise(r) THEN Raised(r[2]) ELSE Ok(r)
    /\ pc' = "done"
    /\ UNCHANGED <<assumptions, steps, proof, call>>
    /\ UNCHANGED <<stack, heap>>

CallIsTauto ==
    /\ pc = "call"
    /\ call.op = "is_tauto"
    /\ result' = is_tauto(call.f)
    /\ pc' = "done"
    /\ UNCHANGED <<assumptions, steps, proof, call>>
    /\ UNCHANGED <<stack, heap>>

RuleNext ==
    \/ CallApplyFirst
    \/ CallIsTauto
    \/ BuildRulesAndCheckCycles
    \/ CallPatternMatch
    \/ CallIsSound
    \/ CallApply
    \/ CallSpecialize
    \/ CallIsSpecialization

RuleSpec == RuleInit /\ [][RuleNext]_vars_

-----------------------------------------------------------------------------
(* The callers of the rewriting loops: a caller calls Rule.apply_all, or     *)
(* Rule.check_cycles and then Rule.apply_list on the same rules. The loops   *)
(* run one statement at a time; call holds the arguments and the locals.     *)

\* The rewrite rules and the formulas a caller passes.
Rules ==
    { Rule(Neg(Neg(A)), A),
      Rule(Imp(A, B), Or(Neg(A), B)),
      Rule(And(A, ConstTRUE), And(ConstTRUE, A)),
      Rule(And(A, B), Or(A, B)),
      Rule(Or(A, B), And(B, A)),
      Rule(And(A, B), And(B, A)),
      Rule(Neg(A), And(A, Neg(A))) }
RuleLists ==
    {<<r>> : r \in Rules} \cup {l \in Rules \X Rules : l[1] # l[2]}
Values ==
    { A, Neg(Neg(A)), And(A, B), Or(A, B), And(ConstTRUE, ConstTRUE),
      And(B, ConstTRUE), Imp(A, Neg(Neg(B))), Neg(Neg(Neg(Neg(B)))),
      And(And(A, ConstTRUE), Neg(Neg(B))),
      Imp(Neg(Neg(A)), And(B, ConstTRUE)),
      Or(Imp(A, B), Neg(And(A, B))) }

\* The frame of a call: rules and value are the arguments; cycles is what
\* check_cycles returned; result, current and the position r of rule are the
\* locals of apply_list_f.f; v and tmp are the locals value and tmp of
\* apply_all.
Frame(op, rules, value) ==
    [op |-> op, rules |-> rules, value |-> value, cycles |-> FALSE,
     result |-> None, current |-> None, r |-> 1, v |-> None, tmp |-> None]

RewriteInit ==
    /\ assumptions = <<>>
    /\ steps = <<>>
    /\ proof = NoProof
    /\ pc = "call"
    /\ call \in {Frame("apply_all", <<r>>, f) : r \in Rules, f \in Values}
                \cup {Frame("apply_list", l, f) : l \in RuleLists, f \in Values}
    /\ result = NoResult
    /\ stack = <<>>
    /\ heap = <<>>

\* Rule.apply_all, the assertion and the entry of the loop.
ApplyAllEnter ==
    /\ pc = "call"
    /\ call.op = "apply_all"
    /\ IF apply_all_precondition(call.rules[1])
       THEN /\ call' = [call EXCEPT !.v = call.value]
            /\ pc' = "apply_first"
            /\ UNCHANGED result
       ELSE /\ result' = Raised("AssertionError")
            /\ pc' = "done"
            /\ UNCHANGED call
    /\ UNCHANGED <<assumptions, steps, proof>>
    /\ UNCHANGED <<stack, heap>>

\* tmp = self.apply_first(value)
ApplyAllApplyFirst ==
    /\ pc = "apply_first"
    /\ call' = [call EXCEPT !.tmp = apply_first(call.rules[call.r], call.v,
                                                BREADTH_FIRST)]
    /\ pc' = "if_tmp"
    /\ UNCHANGED <<assumptions, steps, proof, result>>
    /\ UNCHANGED <<stack, heap>>

\* if tmp: value = tmp; else: break, and return value, to the caller or into
\* the for loop of apply_list_f.f.
ApplyAllIfTmp ==
    /\ pc = "if_tmp"
    /\ IF ~IsNone(call.tmp)
       THEN /\ call' = [call EXCEPT !.v = call.tmp]
            /\ pc' = "apply_first"
            /\ UNCHANGED result
       ELSE IF call.op = "apply_all"
       THEN /\ result' = Ok(call.v)
            /\ pc' = "done"
            /\ UNCHANGED call
       ELSE /\ call' = [call EXCEPT !.result = call.v, !.r = call.r + 1]
            /\ pc' = "for"
            /\ UNCHANGED result
    /\ UNCHANGED <<assumptions, steps, proof>>
    /\ UNCHANGED <<stack, heap>>

CallCheckCycles ==
    /\ pc = "call"
    /\ call.op = "apply_list"
    /\ call' = [call EXCEPT !.cycles = check_cycles(call.rules)]
    /\ pc' = "checked"
    /\ UNCHANGED <<assumptions, steps, proof, result>>
    /\ UNCHANGED <<stack, heap>>

\* Rule.apply_list: result = value
ApplyListEnter ==
    /\ pc = "checked"
    /\ call' = [call EXCEPT !.result = call.value]
    /\ pc' = "while"
    /\ UNCHANGED <<assumptions, steps, proof, result>>
    /\ UNCHANGED <<stack, heap>>

\* current = result, and the start of the for loop
ApplyListWhile ==
    /\ pc = "while"
    /\ call' = [call EXCEPT !.current = call.result, !.r = 1]
    /\ pc' = "for"
    /\ UNCHANGED <<assumptions, steps, proof, result>>
    /\ UNCHANGED <<stack, heap>>

\* for rule in rules: result = rule.apply_all(result), up to the loop of
\* apply_all.
ApplyListFor ==
    /\ pc = "for"
    /\ IF call.r > Len(call.rules)
       THEN /\ pc' = "if_result"
            /\ UNCHANGED <<call, result>>
       ELSE IF apply_all_precondition(call.rules[call.r])
       THEN /\ call' = [call EXCEPT !.v = call.result]
            /\ pc' = "apply_first"
            /\ UNCHANGED result
       ELSE /\ result' = Raised("AssertionError")
            /\ pc' = "done"
            /\ UNCHANGED call
    /\ UNCHANGED <<assumptions, steps, proof>>
    /\ UNCHANGED <<stack, heap>>

\* if result == current: break, and return result
ApplyListIfResult ==
    /\ pc = "if_result"
    /\ IF Formula_eq(call.result, call.current)
       THEN /\ result' = Ok(call.result)
            /\ pc' = "done"
       ELSE /\ pc' = "while"
            /\ UNCHANGED result
    /\ UNCHANGED <<assumptions, steps, proof, call>>
    /\ UNCHANGED <<stack, heap>>

RewriteNext ==
    \/ ApplyAllEnter
    \/ ApplyAllApplyFirst
    \/ ApplyAllIfTmp
    \/ CallCheckCycles
    \/ ApplyListEnter
    \/ ApplyListWhile
    \/ ApplyListFor
    \/ ApplyListIfResult

\* A call that has not returned goes on to its next statement: every
\* statement of RewriteNext moves pc.
ProgramPoints ==
    {"call", "checked", "while", "for", "apply_first", "if_tmp", "if_result",
     "done"}
Runs == pc # "done" /\ pc' \in ProgramPoints

RewriteSpec == RewriteInit /\ [][RewriteNext]_vars_ /\ WF_pc(Runs)

-----------------------------------------------------------------------------
(* The callers of the parser: a caller calls Formula.parse_polish, without a *)
(* stack argument, on the str_polish of a formula or on a string it wrote,   *)
(* up to MaxCalls times in a row.                                            *)

MaxCalls == 3

PolishFormulas ==
    Formulas
    \cup {ConstFALSE, Var("E"), Or(A, B), Or(Neg(A), ConstFALSE),
          Imp(And(A, B), Or(B, Neg(A))), And(Imp(A, B), Imp(B, A)),
          Neg(Or(And(A, A), Neg(B))), Imp(Imp(A, B), Imp(Neg(B), Neg(A)))}
WrittenStrings ==
    { <<"&", "A", "B">>, <<" ", "~", " ", " ", "A", " ">>,
      <<">", "A", "|", "B", "T">>, <<"F">>,
      <<>>, <<" ">>, <<"&", "A">>, <<"A", "B">>, <<"~">>, <<"U">>,
      <<"(", "A", "&", "B", ")">>, <<"A", "&", "B">> }

PolishInit ==
    /\ assumptions = <<>>
    /\ steps = <<>>
    /\ proof = NoProof
    /\ pc = "call"
    /\ call = [op |-> "parse_polish", f |-> None, string |-> <<>>, n |-> 0]
    /\ result = NoResult
    /\ stack = <<>>
    /\ heap = <<>>

\* Formula.parse_polish(f.str_polish)
RoundTrip ==
    /\ call.n < MaxCalls
    /\ \E f \in PolishFormulas :
        LET r == parse_polish(str_polish(f), stack)
        IN  /\ call' = [op |-> "parse_polish", f |-> f, string |-> str_polish(f),
                        n |-> call.n + 1]
            /\ result' = r.result
            /\ stack' = r.stack
    /\ pc' = "done"
    /\ UNCHANGED <<assumptions, steps, proof, heap>>

\* Formula.parse_polish(string)
CallParsePolish ==
    /\ call.n < MaxCalls
    /\ \E string \in WrittenStrings :
        LET r == parse_polish(string, stack)
        IN  /\ call' = [op |-> "parse_polish", f |-> None, string |-> string,
                        n |-> call.n + 1]
            /\ result' = r.result
            /\ stack' = r.stack
    /\ pc' = "done"
    /\ UNCHANGED <<assumptions, steps, proof, heap>>

PolishNext ==
    \/ RoundTrip
    \/ CallParsePolish

PolishSpec == PolishInit /\ [][PolishNext]_vars_

-----------------------------------------------------------------------------
(* The callers that keep their lists: a caller writes the assumption list    *)
(* and the step list of two proofs, constructs the two proofs from them,     *)
(* calls one of step_subproof, proof_mixer and assumption_to_implication,    *)
(* and still holds the lists and the proofs after the call.                  *)

\* A from A by way of B > A and (B > A) > A: discharging A goes through
\* case 3 with both premises in case 2.
a_by_two_implications ==
    PCProof(<<A>>, A,
      << AssumptionInclusion(0),
         AxiomSpecialization(0, ("A" :> B) @@ ("B" :> A)),
         RuleApplication(MP, <<0, 1>>),
         AxiomSpecialization(0, ("A" :> Imp(B, A)) @@ ("B" :> A)),
         RuleApplication(MP, <<0, 3>>),
         RuleApplication(MP, <<2, 4>>) >>).val

\* The proofs a caller constructs; the last three are a proof whose second
\* step cites no assumption, a Proof over an empty axiom list and a proof
\* that cites its last step backwards.
KeptProofs ==
    { absurd, a_from_a, a_implies_a, implication_transitivity, mp_application,
      a_by_two_implications,
      PCProof(<<A, Imp(A, B)>>, Imp(B, A), b_implies_a(0)).val,
      PCProof(<<A>>, A, <<AssumptionInclusion(0), AssumptionInclusion(1)>>).val,
      Proof({MP}, <<>>, <<A>>, A, <<AssumptionInclusion(0)>>),
      PCProof(<<A, Imp(A, B)>>, B,
        << AssumptionInclusion(0), AssumptionInclusion(1),
           RuleApplication(MP, <<0, -2>>) >>).val }

\* The heap after a caller has written the lists of p and constructed p from
\* them, on top of the heap h.
Kept(h, p, assumptions_ref) ==
    Proof_of_lists(h \o <<p.assumptions, p.steps>>, p.rules, p.axioms,
                   assumptions_ref, p.conclusion, Len(h) + 2).heap

\* Two proofs, p then q; with shared, the caller constructs q from the
\* assumption list of p.
KeptHeap(p, q, shared) ==
    Kept(Kept(<<>>, p, 1), q, IF shared THEN 1 ELSE 4)

NoKeptCall == [op |-> "", proof |-> 3, other |-> 6, index |-> 0,
               delete |-> FALSE, assumption |-> None]

HeapInit ==
    /\ assumptions = <<>>
    /\ steps = <<>>
    /\ proof = NoProof
    /\ pc = "proof"
    /\ call = NoKeptCall
    /\ result = NoResult
    /\ stack = <<>>
    /\ \E p \in KeptProofs, q \in KeptProofs, shared \in BOOLEAN :
          /\ shared => p.assumptions = q.assumptions
          /\ heap = KeptHeap(p, q, shared)

\* proof.step_subproof(index, delete) on the first proof.
KeptStepSubproof ==
    /\ pc = "proof"
    /\ \E i \in -1..Len(heap[heap[call.proof].steps]), d \in BOOLEAN :
          /\ call' = [call EXCEPT !.op = "step_subproof", !.index = i, !.delete = d]
          /\ heap' = step_subproof_heap(heap, call.proof, i, d).heap
          /\ result' = step_subproof_heap(heap, call.proof, i, d).out
    /\ pc' = "done"
    /\ UNCHANGED <<assumptions, steps, proof, stack>>

\* proof_mixer(proof, other).
KeptProofMixer ==
    /\ pc = "proof"
    /\ call' = [call EXCEPT !.op = "proof_mixer"]
    /\ heap' = proof_mixer_heap(heap, call.proof, call.other).heap
    /\ result' = proof_mixer_heap(heap, call.proof, call.other).out
    /\ pc' = "done"
    /\ UNCHANGED <<assumptions, steps, proof, stack>>

\* assumption_to_implication(proof, assumption) on the first proof, when it
\* is a PCProof.
KeptAssumptionToImplication ==
    /\ pc = "proof"
    /\ heap[call.proof].rules = {MP}
    /\ heap[call.proof].axioms = PCProof_axioms
    /\ \E a \in AssumptionPool \cup {Neg(A)} :
          /\ call' = [call EXCEPT !.op = "assumption_to_implication",
                                  !.assumption = a]
          /\ heap' = assumption_to_implication_heap(heap, call.proof, a).heap
          /\ result' = assumption_to_implication_heap(heap, call.proof, a).out
    /\ pc' = "done"
    /\ UNCHANGED <<assumptions, steps, proof, stack>>

HeapNext ==
    \/ KeptStepSubproof
    \/ KeptProofMixer
    \/ KeptAssumptionToImplication

HeapSpec == HeapInit /\ [][HeapNext]_vars_

-----------------------------------------------------------------------------
(* Vocabulary of the properties *)

Called(op) == pc = "done" /\ call.op = op

\* p.check is True.
Checks(p) == LET c == check(p) IN c.exc = "" /\ c.val

IsFormula(x) == x[1] \notin {"None", "raise"}

\* What step k of p produces from the formulas produced by the steps before
\* it; None when one of those produced no formula.
RECURSIVE Produced(_, _)
Produced(p, k) ==
    IF \E j \in 1..(k - 1) : ~IsFormula(Produced(p, j))
    THEN None
    ELSE apply_step(p, p.steps[k], [j \in 1..(k - 1) |-> Produced(p, j)])

\* Every step of p produces a formula, and the last one produces c.
Derives(p, c) ==
    /\ \A k \in 1..Len(p.steps) : IsFormula(Produced(p, k))
    /\ Formula_eq(Produced(p, Len(p.steps)), c)

\* The premise indices of the RuleApplication steps of p.
PremiseIndices(p) ==
    UNION {{p.steps[k][3][n] : n \in 1..Len(p.steps[k][3])} :
             k \in {j \in 1..Len(p.steps) : IsRuleApplication(p.steps[j])}}

\* list without the entries equal to f.
Without(list, f) == SelectSeq(list, LAMBDA g : ~Formula_eq(g, f))

\* The two arguments of the proof_mixer call.
proof1 == IF call.first THEN proof ELSE call.other
proof2 == IF call.first THEN call.other ELSE proof

\* The subformulas of f, and of the formulas of a list.
RECURSIVE Sub(_)
Sub(f) ==
    CASE IsVar(f) \/ IsConst(f) -> {f}
      [] UnaryOperator(f) -> {f} \cup Sub(f[2])
      [] BinaryOperator(f) -> {f} \cup Sub(f[2]) \cup Sub(f[3])
SubOfList(list) == UNION {Sub(list[k]) : k \in 1..Len(list)}

\* The bindings of the variables of the patterns that turn every pattern into
\* the formula at its place in the list.
Unifiers(patterns, formulas) ==
    {s \in [UNION {vars(patterns[k]) : k \in 1..Len(patterns)}
              -> SubOfList(formulas)] :
        \A k \in 1..Len(patterns) : subs(patterns[k], s) = formulas[k]}

\* The truth value of f under a truth assignment of its variables.
RECURSIVE Value(_, _)
Value(f, assignment) ==
    CASE IsVar(f) -> assignment[f[2]]
      [] IsConst(f) -> f[2] = "T"
      [] UnaryOperator(f) -> ~Value(f[2], assignment)
      [] f[1] = "And" -> Value(f[2], assignment) /\ Value(f[3], assignment)
      [] f[1] = "Or" -> Value(f[2], assignment) \/ Value(f[3], assignment)
      [] f[1] = "Imp" -> Value(f[2], assignment) => Value(f[3], assignment)

\* Every truth assignment that makes every formula of the list true makes f
\* true.
Entails(list, f) ==
    \A assignment \in
            [vars(f) \cup UNION {vars(list[k]) : k \in 1..Len(list)} -> BOOLEAN] :
        (\A k \in 1..Len(list) : Value(list[k], assignment)) => Value(f, assignment)

\* The nodes of f in pre-order: a node, then its left subtree, then its
\* right subtree.
RECURSIVE PreOrder(_)
PreOrder(f) ==
    CASE IsVar(f) \/ IsConst(f) -> <<f>>
      [] UnaryOperator(f) -> <<f>> \o PreOrder(f[2])
      [] BinaryOperator(f) -> <<f>> \o PreOrder(f[2]) \o PreOrder(f[3])

\* The nodes of f at depth d, from left to right, and the depth of f.
RECURSIVE Level(_, _)
Level(f, d) ==
    IF d = 0 THEN <<f>>
    ELSE CASE IsVar(f) \/ IsConst(f) -> <<>>
           [] UnaryOperator(f) -> Level(f[2], d - 1)
           [] BinaryOperator(f) -> Level(f[2], d - 1) \o Level(f[3], d - 1)
RECURSIVE Depth(_)
Depth(f) ==
    CASE IsVar(f) \/ IsConst(f) -> 0
      [] UnaryOperator(f) -> 1 + Depth(f[2])
      [] BinaryOperator(f) ->
            1 + (IF Depth(f[2]) > Depth(f[3]) THEN Depth(f[2]) ELSE Depth(f[3]))

\* The nodes of f level by level, each level from left to right.
RECURSIVE LevelsFrom(_, _)
LevelsFrom(f, d) ==
    IF d > Depth(f) THEN <<>> ELSE Level(f, d) \o LevelsFrom(f, d + 1)
LevelOrder(f) == LevelsFrom(f, 0)

\* The premise indices of step j of p (j counts from 0); none when j names
\* no step or a step that applies no rule.
Premises(p, j) ==
    IF j \in 0..(Len(p.steps) - 1) /\ IsRuleApplication(p.steps[j + 1])
    THEN {p.steps[j + 1][3][n] : n \in 1..Len(p.steps[j + 1][3])}
    ELSE {}

\* The indices reached from the indices found by following premise indices.
RECURSIVE Reached(_, _)
Reached(p, found) ==
    LET more == found \cup UNION {Premises(p, j) : j \in found}
    IN  IF more = found THEN found ELSE Reached(p, more)

\* The formulas that the AssumptionInclusion steps of p produce.
Included(p) ==
    {AssumptionInclusion_apply(p.steps[k], p.assumptions) :
        k \in {j \in 1..Len(p.steps) :
                 /\ IsAssumptionInclusion(p.steps[j])
                 /\ p.steps[j][2] \in 0..(Len(p.assumptions) - 1)}}

-----------------------------------------------------------------------------
(* Properties *)

\* C1: for every PCProof p that checks and every A in p.assumptions,
\* assumption_to_implication(p, A) returns a proof that checks and whose
\* conclusion is A -> p.conclusion.
C1_DischargeCorrect ==
    (/\ Called("assumption_to_implication")
     /\ Checks(proof)
     /\ InList(call.assumption, proof.assumptions))
    => /\ result.exc = ""
       /\ Checks(result.val)
       /\ Formula_eq(result.val.conclusion, Imp(call.assumption, proof.conclusion))

\* C2: for every PCProof p that checks and every formula A, the proof that
\* assumption_to_implication(p, A) returns has as assumption list p.assumptions
\* with A removed.
C2_DischargeAssumptions ==
    (Called("assumption_to_implication") /\ Checks(proof))
    => /\ result.exc = ""
       /\ result.val.assumptions = Without(proof.assumptions, call.assumption)

\* C3: for the proof of B from [A, A->B] by one modus ponens on the two
\* included assumptions, assumption_to_implication(proof, A) returns a proof
\* of A->B whose only assumption is A->B and that checks.
C3_DischargeModusPonens ==
    (/\ Called("assumption_to_implication")
     /\ proof = PCProof(<<A, Imp(A, B)>>, B,
                  << AssumptionInclusion(0), AssumptionInclusion(1),
                     RuleApplication(MP, <<0, 1>>) >>).val
     /\ call.assumption = A)
    => /\ result.exc = ""
       /\ Checks(result.val)
       /\ Formula_eq(result.val.conclusion, Imp(A, B))
       /\ result.val.assumptions = <<Imp(A, B)>>

\* C4: Proof.check is true if and only if every step of the proof produces a
\* formula and the formula of the last step equals the conclusion.
C4_CheckIffDerives ==
    Called("check")
    => ((result.exc = "" /\ result.val) <=> Derives(proof, proof.conclusion))

C4_Witness ==
    /\ Called("check")
    /\ result.exc = "" /\ result.val
    /\ Len(proof.steps) >= 3
    /\ IsRuleApplication(proof.steps[3])

\* C5: when step k is a RuleApplication with a premise index outside 0..k-1,
\* the step produces no formula and check fails.
C5_PremiseIndexEarlier ==
    (/\ Called("check")
     /\ \E k \in 1..Len(proof.steps) :
           /\ IsRuleApplication(proof.steps[k])
           /\ \E n \in 1..Len(proof.steps[k][3]) :
                 proof.steps[k][3][n] \notin 0..(k - 2))
    => ~(result.exc = "" /\ result.val)

\* C6: for two proofs that both check and share axioms and rules, the proof
\* made of proof_mixer's assumptions and steps with the conclusion of the
\* second proof checks.
C6_MixerProvesSecond ==
    (/\ Called("proof_mixer")
     /\ Checks(proof1) /\ Checks(proof2)
     /\ proof1.axioms = proof2.axioms /\ proof1.rules = proof2.rules)
    => /\ result.exc = ""
       /\ Checks(Proof(proof1.rules, proof1.axioms, result.val.assumptions,
                       proof2.conclusion, result.val.steps))

\* C7: whenever proof_mixer(p1, p2) returns, the step list it returns has
\* len(p1.steps) + len(p2.steps) steps.
C7_MixerStepCount ==
    (Called("proof_mixer") /\ result.exc = "")
    => Len(result.val.steps) = Len(proof1.steps) + Len(proof2.steps)

C7_Witness ==
    /\ Called("proof_mixer") /\ result.exc = ""
    /\ \E k \in 1..Len(proof2.steps) : IsRuleApplication(proof2.steps[k])
    /\ \E k \in 1..Len(proof2.steps) : IsAxiomSpecialization(proof2.steps[k])
    /\ Len(proof1.steps) >= 2

\* C8: the assumption list proof_mixer(p1, p2) returns is p1.assumptions
\* followed by the assumptions of p2 that do not occur in p1, in p2's order;
\* it has no duplicates, and every AssumptionInclusion step that comes from
\* p2 still denotes the same formula.
C8_MixerAssumptions ==
    (Called("proof_mixer") /\ result.exc = "")
    => /\ result.val.assumptions =
            proof1.assumptions
            \o SelectSeq(proof2.assumptions,
                         LAMBDA g : ~InList(g, proof1.assumptions))
       /\ NoRepeats(result.val.assumptions)
       /\ \A k \in 1..Len(proof2.steps) :
             IsAssumptionInclusion(proof2.steps[k])
             => LET new == result.val.steps[Len(proof1.steps) + k]
                IN  /\ IsAssumptionInclusion(new)
                    /\ Formula_eq(
                         AssumptionInclusion_apply(new, result.val.assumptions),
                         AssumptionInclusion_apply(proof2.steps[k],
                                                   proof2.assumptions))

C8_Witness ==
    /\ Called("proof_mixer") /\ result.exc = ""
    /\ \E k \in 1..Len(proof2.assumptions) :
          /\ InList(proof2.assumptions[k], proof1.assumptions)
          /\ ListIndex(proof2.assumptions[k], proof1.assumptions) # k - 1
          /\ \E n \in 1..Len(proof2.steps) :
                proof2.steps[n] = AssumptionInclusion(k - 1)
    /\ \E k \in 1..Len(proof2.assumptions) :
          ~InList(proof2.assumptions[k], proof1.assumptions)

\* The rank of step index j in the ascending list idx, counted from 0.
Rank(j, idx) == CHOOSE r \in 0..(Len(idx) - 1) : idx[r + 1] = j

\* step with every premise index replaced by its rank in idx.
Ranked(step, idx) ==
    IF IsRuleApplication(step)
    THEN RuleApplication(step[2],
           [n \in 1..Len(step[3]) |-> Rank(step[3][n], idx)])
    ELSE step

\* The entries of list, each once, in order of first occurrence.
RECURSIVE FirstUses(_)
FirstUses(list) ==
    IF list = <<>> THEN <<>>
    ELSE LET init == FirstUses(SubSeq(list, 1, Len(list) - 1))
             last == list[Len(list)]
         IN  IF InList(last, init) THEN init ELSE Append(init, last)

\* C9: for every proof that checks and every step index i, step_subproof(i)
\* returns a proof whose conclusion is state[i], whose steps are the steps
\* {i} \cup step_dependencies(i) in ascending order with every premise index
\* replaced by its rank in that order, and that checks.
C9_SubproofStructure ==
    (Called("step_subproof") /\ ~call.delete /\ Checks(proof))
    => /\ result.exc = ""
       /\ Formula_eq(result.val.conclusion, PyItem(state(proof).val, call.index))
       /\ step_dependencies(proof, call.index).exc = ""
       /\ LET idx == SortedList(step_dependencies(proof, call.index).val
                                \cup {call.index})
          IN  /\ \A n \in 1..Len(idx) : idx[n] \in 0..(Len(proof.steps) - 1)
              /\ result.val.steps =
                   [n \in 1..Len(idx) |-> Ranked(proof.steps[idx[n] + 1], idx)]
       /\ Checks(result.val)

\* C10: for every proof that checks and every step index i,
\* step_subproof(i, True) returns a proof that checks, whose assumption list
\* holds the assumptions that the extracted AssumptionInclusion steps refer
\* to, each once, in order of first use, and whose AssumptionInclusion steps
\* are re-indexed onto that list. The proofs taken here are those whose
\* premise indices are all non-negative.
C10_SubproofCompacted ==
    (/\ Called("step_subproof") /\ call.delete /\ Checks(proof)
     /\ PremiseIndices(proof) \subseteq Nat)
    => /\ result.exc = ""
       /\ Checks(result.val)
       /\ LET idx == SortedList(step_dependencies(proof, call.index).val
                                \cup {call.index})
              inc == SelectSeq(idx,
                       LAMBDA j : IsAssumptionInclusion(proof.steps[j + 1]))
              used == [n \in 1..Len(inc) |->
                         PyItem(proof.assumptions, proof.steps[inc[n] + 1][2])]
          IN  /\ result.val.assumptions = FirstUses(used)
              /\ \A n \in 1..Len(idx) :
                    IsAssumptionInclusion(proof.steps[idx[n] + 1])
                    => /\ IsAssumptionInclusion(result.val.steps[n])
                       /\ Formula_eq(
                            AssumptionInclusion_apply(result.val.steps[n],
                                                      result.val.assumptions),
                            AssumptionInclusion_apply(proof.steps[idx[n] + 1],
                                                      proof.assumptions))

\* C11: InferenceRule.apply returns None when the number of concrete
\* assumptions differs from the arity, when the keys of conclusion_binding
\* differ from the conclusion variables absent from the assumption patterns,
\* or when no single binding turns every assumption pattern into its concrete
\* formula; in every other case it returns the conclusion with that binding
\* and conclusion_binding substituted. MP.apply([X, X -> Y]) is Y, and the
\* rule ([A, ~A], B) applied to [X, X] returns None.
C11_ApplyContract ==
    Called("apply") =>
        LET r == call.rule
            l == call.assumptions
            cb == call.conclusion_binding
            free == conclusion_vars(r) \ assumptions_vars(r)
            U == IF Len(l) = arity(r) THEN Unifiers(r.assumptions, l) ELSE {}
        IN  /\ result.exc = ""
            /\ (Len(l) # arity(r) \/ DOMAIN cb # free \/ U = {})
                  => IsNone(result.val)
            /\ (Len(l) = arity(r) /\ DOMAIN cb = free /\ U # {})
                  => \E s \in U : result.val = subs(r.conclusion, cb @@ s)
            /\ (r = MP /\ cb = EmptyBinding /\ Len(l) = 2
                       /\ IsImp(l[Len(l)]) /\ l[Len(l)][2] = l[1])
                  => result.val = l[Len(l)][3]
            /\ (r = absurd_rule /\ Len(l) = 2 /\ l[1] = l[Len(l)])
                  => IsNone(result.val)

\* The rule ([A, ~A], B) was applied to [X, ~X] with B bound, and returned
\* what B is bound to.
C11_Witness ==
    /\ Called("apply")
    /\ call.rule = absurd_rule
    /\ DOMAIN call.conclusion_binding = {"B"}
    /\ Len(call.assumptions) = 2
    /\ IsFormula(result.val)
    /\ result.val = call.conclusion_binding["B"]

\* C12: r.is_specialization(o) is true exactly when r and o have the same
\* arity and one binding turns each assumption and the conclusion of o into
\* the corresponding ones of r; it is true when r is o.specialize(b).
C12_IsSpecialization ==
    Called("is_specialization") =>
        LET r == call.self
            o == call.other
        IN  /\ result.exc = ""
            /\ result.val =
                  (/\ arity(r) = arity(o)
                   /\ Unifiers(Append(o.assumptions, o.conclusion),
                               Append(r.assumptions, r.conclusion)) # {})
            /\ (\E b \in SpecializeBindings : r = specialize(o, b)) => result.val

\* A rule that was specialized with a binding changing it was compared with
\* the rule it came from, and a rule was found to be no specialization of
\* another of its arity.
C12_Witness ==
    /\ Called("is_specialization")
    /\ result = Ok(TRUE)
    /\ call.self.assumptions # call.other.assumptions
    /\ \E b \in SpecializeBindings : call.self = specialize(call.other, b)

\* C13: is_sound is true exactly when the implication from the conjunction
\* of the assumptions to the conclusion is true under every truth assignment;
\* it is true for modus ponens.
C13_IsSound ==
    Called("is_sound") =>
        /\ result.exc = ""
        /\ result.val = Entails(call.rule.assumptions, call.rule.conclusion)
        /\ call.rule = MP => result.val

\* C14: an AxiomSpecialization step produces a formula only if its axiom
\* index is in range and the keys of its binding are exactly the variables of
\* the axiom; otherwise it produces no formula and the proof does not check.
C14_AxiomSpecializationTotal ==
    Called("check") =>
        \A k \in 1..Len(proof.steps) :
            IsAxiomSpecialization(proof.steps[k]) =>
                LET index == proof.steps[k][2]
                    total ==
                        /\ index \in 0..(Len(proof.axioms) - 1)
                        /\ DOMAIN proof.steps[k][3] = vars(proof.axioms[index + 1])
                IN  /\ IsFormula(Produced(proof, k)) => total
                    /\ ~total => ~(result.exc = "" /\ result.val)

\* A proof was checked whose steps produce formulas up to an
\* AxiomSpecialization with a key more than the axiom has variables.
C14_Witness ==
    /\ Called("check")
    /\ result = Ok(FALSE)
    /\ \E k \in 1..Len(proof.steps) :
          /\ IsAxiomSpecialization(proof.steps[k])
          /\ proof.steps[k][2] = 0
          /\ DOMAIN proof.steps[k][3] = {"A", "B", "C"}
          /\ \A j \in 1..(k - 1) : IsFormula(Produced(proof, j))

\* C15: pattern_match yields one entry per node of the subject, in pre-order
\* or, by default, level by level from left to right; the entry of a
\* subformula s is a binding b of exactly the variables of the pattern with
\* pattern.subs(b) = s when there is one, and None exactly when there is none.
C15_PatternMatchEntries ==
    Called("pattern_match") =>
        LET nodes == IF call.traverse_order = PREORDER
                     THEN PreOrder(call.subject)
                     ELSE LevelOrder(call.subject)
        IN  /\ result.exc = ""
            /\ Len(result.val) = Len(nodes)
            /\ \A k \in 1..Len(nodes) :
                  LET U == Unifiers(<<call.pattern>>, <<nodes[k]>>)
                  IN  IF U = {}
                      THEN result.val[k].none
                      ELSE ~result.val[k].none /\ result.val[k].binding \in U

\* A subject whose level order differs from its pre-order was matched in the
\* default order, with a binding at some positions and None at others.
C15_Witness ==
    /\ Called("pattern_match")
    /\ call.traverse_order = BREADTH_FIRST
    /\ LevelOrder(call.subject) # PreOrder(call.subject)
    /\ \E k \in 2..Len(result.val) :
          ~result.val[k].none /\ DOMAIN result.val[k].binding = {"A", "B"}
    /\ \E k \in 1..Len(result.val) : result.val[k].none

\* C16: in a proof without negative premise indices, step_dependencies(i) is
\* the set of the indices reached from step i by following premise indices,
\* whatever the arity of the rules; it is empty when step i applies no rule;
\* for a proof that checks it returns, and returns only indices smaller than
\* i.
C16_StepDependencies ==
    (Called("step_dependencies") /\ PremiseIndices(proof) \subseteq Nat) =>
        /\ result.exc = "" => result.val = Reached(proof, Premises(proof, call.index))
        /\ ~IsRuleApplication(proof.steps[call.index + 1])
              => result.exc = "" /\ result.val = {}
        /\ Checks(proof)
              => result.exc = "" /\ \A j \in result.val : j < call.index

\* C17: used_assumptions holds every formula that an AssumptionInclusion step
\* produces, each exactly once, and no other formula.
C17_UsedAssumptionsOnce ==
    Called("used_assumptions") =>
        /\ result.exc = ""
        /\ {result.val[k] : k \in 1..Len(result.val)} = Included(proof)
        /\ \A j, k \in 1..Len(result.val) : result.val[j] = result.val[k] => j = k

\* C18: superflous_assumption(a) is true exactly when no AssumptionInclusion
\* step produces a: true for a formula that is not listed and for a listed
\* assumption that no step includes, false for an included one.
C18_SuperflousAssumption ==
    Called("superflous_assumption") =>
        /\ result.exc = ""
        /\ result.val = (call.assumption \notin Included(proof))
        /\ ~InList(call.assumption, proof.assumptions) => result.val

\* The question was asked of a listed assumption that no step includes, in a
\* proof that includes another one.
C18_Witness ==
    /\ Called("superflous_assumption")
    /\ result.val
    /\ InList(call.assumption, proof.assumptions)
    /\ Included(proof) # {}

\* C19: for a rule whose head matches at no position of its body, apply_all
\* returns for every value, and what it returns has no position at which the
\* head matches.
C19_ApplyAllTerminates ==
    /\ [](( /\ pc = "call"
            /\ call.op = "apply_all"
            /\ apply_all_precondition(call.rules[1]) ) => <>(pc = "done"))
    /\ []( (Called("apply_all") /\ result.exc = "")
             => \A k \in 1..len(result.val) :
                   pattern_match(call.rules[1].head, result.val, BREADTH_FIRST)[k].none )

\* C20: when check_cycles returned False and every rule passes the assertion
\* of apply_all, apply_list returns, unless one of its apply_all calls never
\* returns.
C20_NoCyclesTerminates ==
    []( ( /\ pc = "checked"
          /\ ~call.cycles
          /\ \A k \in 1..Len(call.rules) : apply_all_precondition(call.rules[k]) )
        => ( <>(pc = "done") \/ <>[](pc \in {"apply_first", "if_tmp"}) ) )

\* C21: the rule set {Rule(P, Q), Rule(Q, P)} is built and check_cycles returns
\* True on it, and check_cycles returns False on the rule set {Rule(P & Q, P)}.
C21_CheckCyclesExample ==
    Called("check_cycles") =>
        /\ call.pairs = <<<<P, Q>>, <<Q, P>>>> => result = Ok(TRUE)
        /\ call.pairs = <<<<And(P, Q), P>>>> => result = Ok(FALSE)

\* The head of the rule, with some formulas for its variables, is a subformula
\* of the body of the rule.
HeadInBody(rule) ==
    \E s \in Sub(rule.body) : Unifiers(<<rule.head>>, <<s>>) # {}

\* C22: every call of apply_all on a rule whose head matches at some position
\* of its body, made by a caller or by apply_list, fails its assertion at
\* once whatever the formula is: no rewriting statement runs, and no loop of
\* apply_all ever runs on such a rule.
C22_ApplyAllRejects ==
    /\ [][/\ (pc = "call" /\ call.op = "apply_all" /\ HeadInBody(call.rules[1]))
              => (result' = Raised("AssertionError") /\ pc' = "done" /\ call' = call)
          /\ (pc = "for" /\ call.r <= Len(call.rules)
                         /\ HeadInBody(call.rules[call.r]))
              => (result' = Raised("AssertionError") /\ pc' = "done" /\ call' = call)
         ]_vars_
    /\ [](pc \in {"apply_first", "if_tmp"} => ~HeadInBody(call.rules[call.r]))

\* apply_all was called on a rule whose head matches inside its body but not
\* at its root, with a formula the rule can rewrite, and was rejected.
C22_Witness ==
    /\ Called("apply_all")
    /\ HeadInBody(call.rules[1])
    /\ Unifiers(<<call.rules[1].head>>, <<call.rules[1].body>>) = {}
    /\ ~IsNone(apply_first(call.rules[1], call.value, BREADTH_FIRST))
    /\ result = Raised("AssertionError")

\* The characters left after one formula in Polish notation is read from
\* the front of a string without spaces: an operator sign followed by its
\* operands, T, F, or a variable name; <<"fail">> when there is none.
RECURSIVE AfterFormula(_)
AfterFormula(string) ==
    IF string = <<>> \/ string = <<"fail">> THEN <<"fail">>
    ELSE CASE Head(string) = "~" -> AfterFormula(Tail(string))
           [] Head(string) \in {"&", "|", ">"} ->
                AfterFormula(AfterFormula(Tail(string)))
           [] Head(string) \in {"T", "F"} \cup var_names -> Tail(string)
           [] OTHER -> <<"fail">>

\* The string is one formula in Polish notation, spaces apart.
WellFormed(string) == AfterFormula(without_spaces(string)) = <<>>

\* C23: a parse_polish call on a well-formed string that finds the shared
\* stack empty leaves it empty, and a call on f.str_polish that finds it
\* empty returns f, for every formula f.
C23_PolishRoundTrip ==
    [][(stack = <<>> /\ call'.n = call.n + 1) =>
          /\ WellFormed(call'.string) => stack' = <<>>
          /\ ~IsNone(call'.f) => result' = Ok(call'.f)]_vars_

\* C24: for every formula f, constants included, f.is_tauto returns what the
\* truth table decides, table.is_tauto(f).
C24_IsTautoCongruent ==
    Called("is_tauto") => result = Ok(table_is_tauto(call.f))

\* C25: the list Proof.state returns has one entry per evaluated step, in
\* order; each entry is what its step gives when applied to the entries
\* before it and the assumptions and axioms of the proof; every entry but the
\* last is a formula; and steps are left unevaluated only after an entry
\* None. When the computation raises instead, it does so at the first step
\* that produces no formula.
C25_StateStopsAtNone ==
    Called("state") =>
        IF result.exc = ""
        THEN LET s == result.val
             IN  /\ Len(s) <= Len(proof.steps)
                 /\ \A k \in 1..Len(s) :
                       s[k] = apply_step(proof, proof.steps[k], SubSeq(s, 1, k - 1))
                 /\ \A k \in 1..(Len(s) - 1) : IsFormula(s[k])
                 /\ Len(s) < Len(proof.steps) => IsNone(s[Len(s)])
        ELSE \E k \in 1..Len(proof.steps) :
                /\ \A j \in 1..(k - 1) : IsFormula(Produced(proof, j))
                /\ Produced(proof, k) = Raise(result.exc)

\* state returned a list that ends with None after a formula, and left a
\* step unevaluated.
C25_Witness ==
    /\ Called("state")
    /\ result.exc = ""
    /\ Len(result.val) = 2
    /\ Len(proof.steps) > 2
    /\ IsFormula(result.val[1])
    /\ IsNone(result.val[2])

\* The steps that proof_mixer returned for the steps of the second proof are
\* these steps with every premise index of a RuleApplication moved up by
\* offset, and with every AssumptionInclusion index replaced by the first
\* place of its assumption in the assumption list returned.
MixerRenumbers(offset) ==
    \A k \in 1..Len(proof2.steps) :
        LET old == proof2.steps[k]
            new == result.val.steps[Len(proof1.steps) + k]
        IN  /\ IsRuleApplication(old) =>
                  /\ IsRuleApplication(new)
                  /\ new[2] = old[2]
                  /\ Len(new[3]) = Len(old[3])
                  /\ \A n \in 1..Len(old[3]) : new[3][n] = old[3][n] + offset
            /\ IsAssumptionInclusion(old) =>
                  /\ IsAssumptionInclusion(new)
                  /\ new[2] \in 0..(Len(result.val.assumptions) - 1)
                  /\ Formula_eq(result.val.assumptions[new[2] + 1],
                                proof2.assumptions[old[2] + 1])
                  /\ \A r \in 0..(new[2] - 1) :
                        ~Formula_eq(result.val.assumptions[r + 1],
                                    proof2.assumptions[old[2] + 1])

\* C26: whenever proof_mixer(p1, p2) returns, every premise index j of a
\* RuleApplication step of p2 has become j + len(p1.assumptions) +
\* len(p1.steps), and every AssumptionInclusion index of p2 has gone through
\* the assumption remap.
C26_MixerRenumbers ==
    (Called("proof_mixer") /\ result.exc = "")
    => MixerRenumbers(Len(proof1.assumptions) + Len(proof1.steps))

\* C26, amended: whenever proof_mixer(p1, p2) returns, every premise index j
\* of a RuleApplication step of p2 has become j + len(p1.steps), and every
\* AssumptionInclusion index of p2 has gone through the assumption remap.
C26_MixerRenumbersBySteps ==
    (Called("proof_mixer") /\ result.exc = "")
    => MixerRenumbers(Len(proof1.steps))

\* proof_mixer returned for a first proof that has assumptions and steps and
\* a second proof that applies a rule and includes an assumption whose index
\* the remap changes.
C26_Witness ==
    /\ Called("proof_mixer") /\ result.exc = ""
    /\ Len(proof1.assumptions) > 0 /\ Len(proof1.steps) > 0
    /\ \E k \in 1..Len(proof2.steps) : IsRuleApplication(proof2.steps[k])
    /\ \E k \in 1..Len(proof2.steps) :
          /\ IsAssumptionInclusion(proof2.steps[k])
          /\ result.val.steps[Len(proof1.steps) + k] # proof2.steps[k]

\* The positions of the nodes of f, each the list of the child numbers (1 for
\* the only or left child, 2 for the right child) that lead to it from the
\* root: in pre-order, and level by level from left to right.
Below(c, places) == [k \in 1..Len(places) |-> <<c>> \o places[k]]
RECURSIVE PreOrderPaths(_)
PreOrderPaths(f) ==
    CASE IsVar(f) \/ IsConst(f) -> << <<>> >>
      [] UnaryOperator(f) -> << <<>> >> \o Below(1, PreOrderPaths(f[2]))
      [] BinaryOperator(f) ->
            << <<>> >> \o Below(1, PreOrderPaths(f[2]))
                       \o Below(2, PreOrderPaths(f[3]))
RECURSIVE LevelPaths(_, _)
LevelPaths(f, d) ==
    IF d = 0 THEN << <<>> >>
    ELSE CASE IsVar(f) \/ IsConst(f) -> <<>>
           [] UnaryOperator(f) -> Below(1, LevelPaths(f[2], d - 1))
           [] BinaryOperator(f) ->
                Below(1, LevelPaths(f[2], d - 1)) \o Below(2, LevelPaths(f[3], d - 1))
RECURSIVE LevelPathsFrom(_, _)
LevelPathsFrom(f, d) ==
    IF d > Depth(f) THEN <<>> ELSE LevelPaths(f, d) \o LevelPathsFrom(f, d + 1)
LevelOrderPaths(f) == LevelPathsFrom(f, 0)

\* The subformula of f at a position, and f with the subformula at a position
\* replaced by g.
RECURSIVE At(_, _)
At(f, path) == IF path = <<>> THEN f ELSE At(f[path[1] + 1], Tail(path))
RECURSIVE ReplacedAt(_, _, _)
ReplacedAt(f, path, g) ==
    IF path = <<>> THEN g
    ELSE [f EXCEPT ![path[1] + 1] = ReplacedAt(f[path[1] + 1], Tail(path), g)]

\* value with the subformula at the first position, in the order, where the
\* head of the rule matches replaced by the body under the binding of that
\* match; None when the head matches at no position.
FirstRewrite(rule, value, order) ==
    LET places == IF order = PREORDER THEN PreOrderPaths(value)
                                     ELSE LevelOrderPaths(value)
        hits == {k \in 1..Len(places) :
                   Unifiers(<<rule.head>>, <<At(value, places[k])>>) # {}}
    IN  IF hits = {} THEN None
        ELSE LET k == CHOOSE h \in hits : \A j \in hits : h <= j
                 u == CHOOSE b \in Unifiers(<<rule.head>>, <<At(value, places[k])>>) : TRUE
             IN  ReplacedAt(value, places[k], subs(rule.body, u))

\* C27: in both traversal orders, apply_first returns the value with the
\* subformula at the first position where the head matches replaced by the
\* body under that position's binding, and None when the head matches at no
\* position.
C27_ApplyFirst ==
    Called("apply_first") =>
        result = Ok(FirstRewrite(call.rule, call.value, call.traverse_order))

\* C28: when an AssumptionInclusion step of the proof produces the assumption
\* a and the conclusion of the proof is X -> a, assumption_to_implication
\* returns the proof whose assumptions are those of the proof without a,
\* whose conclusion is a -> (X -> a) and whose only step is a specialization
\* of the axiom B -> (A -> B) that produces this conclusion; the proof
\* returned checks.
C28_ReflexiveShortcut ==
    (/\ Called("assumption_to_implication")
     /\ \E f \in Included(proof) : Formula_eq(f, call.assumption)
     /\ IsImp(proof.conclusion)
     /\ Formula_eq(proof.conclusion[3], call.assumption))
    => /\ result.exc = ""
       /\ result.val.assumptions = Without(proof.assumptions, call.assumption)
       /\ result.val.conclusion
            = Imp(call.assumption, Imp(proof.conclusion[2], call.assumption))
       /\ Len(result.val.steps) = 1
       /\ IsAxiomSpecialization(result.val.steps[1])
       /\ result.val.steps[1][2] = 0
       /\ PCProof_axioms[1] = Imp(B, Imp(A, B))
       /\ Produced(result.val, 1) = result.val.conclusion
       /\ Checks(result.val)

\* The assumption discharged is the second of two, both included, and the
\* conclusion is X -> a with X another formula than a.
C28_Witness ==
    /\ Called("assumption_to_implication")
    /\ Len(proof.assumptions) = 2
    /\ Included(proof) = {proof.assumptions[1], proof.assumptions[2]}
    /\ call.assumption = proof.assumptions[2]
    /\ IsImp(proof.conclusion)
    /\ proof.conclusion[3] = call.assumption
    /\ proof.conclusion[2] # call.assumption
    /\ result.exc = ""

\* The lists of the proof that a call returned: the pair of proof_mixer, or
\* the assumption list and the step list of the Proof.
ResultLists(h, c, r) ==
    IF c.op = "proof_mixer"
    THEN {r.val.assumptions, r.val.steps}
    ELSE {h[r.val].assumptions, h[r.val].steps}

\* C29: a call of step_subproof, proof_mixer or assumption_to_implication,
\* whether it returns or raises, leaves every list and every proof that the
\* caller held before the call as it was (the assumption lists, the step
\* lists, and the conclusions with the proofs), and the lists of what it
\* returns are none of the caller's lists.
C29_InputsNotModified ==
    [][(pc = "proof" /\ pc' = "done") =>
          /\ \A ref \in DOMAIN heap : heap'[ref] = heap[ref]
          /\ result'.exc = "" =>
                ResultLists(heap', call', result') \cap DOMAIN heap = {}]_vars_

\* assumption_to_implication has raised AttributeError in case 1 after it
\* appended the axiom step to the step list of its local proof.
C29_Witness ==
    /\ Called("assumption_to_implication")
    /\ result = Raised("AttributeError")
    /\ Len(heap) > call.other
    /\ IsAxiomSpecialization(PyItem(heap[heap[Len(heap)].steps], -1))
    /\ Len(heap[heap[Len(heap)].steps]) > Len(heap[heap[call.proof].steps])

\* The proof is a PCProof: its rules and axioms are those of the class.
IsPCProof(p) == p.rules = {MP} /\ p.axioms = PCProof_axioms

\* C30: every formula of the state of a PCProof is a semantic consequence of
\* the assumptions of the proof (every truth assignment that makes all the
\* assumptions true makes it true), and so is the conclusion of a PCProof
\* whose check is True.
C30_CheckingIsSound ==
    /\ (Called("state") /\ IsPCProof(proof) /\ result.exc = "")
       => \A k \in 1..Len(result.val) :
              ~IsNone(result.val[k]) => Entails(proof.assumptions, result.val[k])
    /\ (Called("check") /\ IsPCProof(proof) /\ result = Ok(TRUE))
       => Entails(proof.assumptions, proof.conclusion)

\* The state of a PCProof with assumptions has been evaluated up to a
\* formula that modus ponens derived and that is no assumption.
C30_Witness ==
    /\ Called("state")
    /\ IsPCProof(proof)
    /\ result.exc = ""
    /\ Len(proof.assumptions) > 0
    /\ IsRuleApplication(PyItem(proof.steps, -1))
    /\ Len(result.val) = Len(proof.steps)
    /\ ~IsNone(PyItem(result.val, -1))
    /\ ~InList(PyItem(result.val, -1), proof.assumptions)

=============================================================================
